---- MODULE Spec2Model ----
(***************************************************************************)
(* A model of the CSV-to-PowerPoint generator: the skeleton synthesizer,   *)
(* the content enhancer, the query executor, the chart selector/renderer,  *)
(* the template loader, the layout engine and the csv_to_ppt pipeline.     *)
(*                                                                         *)
(* Text is modelled as a sequence of pieces.  A piece is a one-character   *)
(* string where the code looks at characters (slicing, stripping, case     *)
(* folding, substring search) and a whole literal where the code only      *)
(* copies it.  An LLM response that is parsed as JSON is a sequence of     *)
(* lexical tokens (see Tokens).                                            *)
(***************************************************************************)
EXTENDS Integers, Sequences, FiniteSets, TLC

VARIABLES
    skPc,        \* create_ppt_skeleton: "off" | "call" | "returned" | "raised"
    skQuestion,  \* analysis_result['original_question']
    skLlm,       \* what ai(prompt) does: [raises, text]
    skPath,      \* which return statement ran: "none" | "json" | "fallback"
    skResult     \* the value create_ppt_skeleton returned

skVars == <<skPc, skQuestion, skLlm, skPath, skResult>>

VARIABLES
    enPc,        \* enhance_slide_content: "off" | "call" | "returned" | "raised"
    enOutline,   \* slide['content'] when the function was called
    enLlm,       \* what ai(prompt) does: [raises, text]
    enSlide      \* the slide dict, mutated in place and returned

enVars == <<enPc, enOutline, enLlm, enSlide>>

VARIABLES
    qePc,        \* execute_pandas_query: "off" | "call" | "returned" | "raised"
    qeQuery,     \* the query text (the LLM's answer)
    qeDf0,       \* the dataset as it was when the function was called
    qeDf,        \* the caller's DataFrame object, which eval can reach as df
    qeResult     \* the DataFrame returned

qeVars == <<qePc, qeQuery, qeDf0, qeDf, qeResult>>

VARIABLES
    chPc,        \* generate_chart: "off" | "call" | "returned" | "raised"
    chPlotly,    \* PLOTLY_AVAILABLE, set when chart_generator is imported
    chTable,     \* the DataFrame handed to generate_chart
    chQuestion,  \* the question (the chart title)
    chPath,      \* the output path
    chCalls,     \* the answers of the classifier calls made, in order
    chRender     \* what was drawn, by which backend, from which rows

chVars == <<chPc, chPlotly, chTable, chQuestion, chPath, chCalls, chRender>>

VARIABLES
    lyConfig,    \* template.config: the SlideConfig the PPTTemplate holds
    lySlides,    \* the slides laid out so far, each a sequence of shapes
    lyCalls,     \* the calls of percent_to_inches made: [percent, dim, result]
    lyDoc,       \* prs.slides: the title, body and picture of each slide
    lyArgs       \* the arguments of each layout call made, in order

lyVars == <<lyConfig, lySlides, lyCalls, lyDoc, lyArgs>>

VARIABLES
    plEntry,     \* the function called: "csv_to_ppt" | "load_pptx_template"
    plPc,        \* the statement the call is at
    plFiles,     \* the stems of the .pptx files in the templates folder
    plCorrupt,   \* whether Presentation(path) raises for those files
    plLayouts,   \* the slide layouts of those files: how many, and whether
                 \* they have title and body placeholders
    plRequested, \* the template name the caller passed
    plTemplate,  \* csv_to_ppt's local variable template
    plDf,        \* the DataFrame load_csv returned
    plAnalysis,  \* analysis_result
    plSkeleton,  \* skeleton, its slide dicts mutated in place by the enhancer
    plIdx,       \* the position in skeleton['slides'] of the slide in work
    plPrs,       \* the Presentation: where it came from and its slides
    plCharts,    \* the chart images written, in order
    plLog,       \* the steps of create_presentation taken, in order
    plRaised,    \* "none", or the call that raised to the caller
    plReturn     \* "none", or what the function returned

plVars == <<plEntry, plPc, plFiles, plCorrupt, plLayouts, plRequested, plTemplate, plDf,
            plAnalysis, plSkeleton, plIdx, plPrs, plCharts, plLog, plRaised, plReturn>>

VARIABLES
    cbPc,        \* chatbot_loop: "off" | "prompt" | "answering" | "ended"
    cbInputs,    \* what input() did at each prompt so far
    cbQuestion,  \* user_q, the question being answered
    cbAnswers,   \* the answers of chatbot so far, and whether the LLM failed
    cbEnd        \* "none", or the way the loop was left

cbVars == <<cbPc, cbInputs, cbQuestion, cbAnswers, cbEnd>>

VARIABLES
    ftMax,       \* fit_text_to_textbox: max_font_size of the calls
    ftMin,       \* min_font_size of the calls
    ftFrames     \* the text frames fitted so far: their text and font size

ftVars == <<ftMax, ftMin, ftFrames>>

VARIABLES
    mnPc,        \* main: "off" | "parse_args" | "dispatch" | "run_chatbot" |
                 \*       "csv_to_ppt" | "returned" | "exited"
    mnArgv,      \* the command line
    mnArgs,      \* args, the namespace parse_args returns
    mnModes,     \* the modes main has run
    mnLog,       \* the calls made by the mode, in order
    mnFiles      \* the files written

mnVars == <<mnPc, mnArgv, mnArgs, mnModes, mnLog, mnFiles>>

vars == <<skVars, enVars, qeVars, chVars, lyVars, plVars, cbVars, ftVars, mnVars>>

\* what a call of one component leaves alone: the other components' state
SkFrame == UNCHANGED <<enVars, qeVars, chVars, lyVars, plVars, cbVars, ftVars, mnVars>>
EnFrame == UNCHANGED <<skVars, qeVars, chVars, lyVars, plVars, cbVars, ftVars, mnVars>>
QeFrame == UNCHANGED <<skVars, enVars, chVars, lyVars, plVars, cbVars, ftVars, mnVars>>
ChFrame == UNCHANGED <<skVars, enVars, qeVars, lyVars, plVars, cbVars, ftVars, mnVars>>
LyFrame == UNCHANGED <<skVars, enVars, qeVars, chVars, plVars, cbVars, ftVars, mnVars>>
PlFrame == UNCHANGED <<skVars, enVars, qeVars, chVars, lyVars, cbVars, ftVars, mnVars>>
CbFrame == UNCHANGED <<skVars, enVars, qeVars, chVars, lyVars, plVars, ftVars, mnVars>>
FtFrame == UNCHANGED <<skVars, enVars, qeVars, chVars, lyVars, plVars, cbVars, mnVars>>
MnFrame == UNCHANGED <<skVars, enVars, qeVars, chVars, lyVars, plVars, cbVars, ftVars>>

(***************************************************************************)
(* Sequence helpers                                                        *)
(***************************************************************************)
Min(a, b) == IF a <= b THEN a ELSE b

\* s[:n]
Take(s, n) == SubSeq(s, 1, Min(n, Len(s)))

\* s[n:]
Drop(s, n) == SubSeq(s, Min(n, Len(s)) + 1, Len(s))

\* needle in hay
Contains(hay, needle) ==
    \E i \in 0..(Len(hay) - Len(needle)) :
        SubSeq(hay, i + 1, i + Len(needle)) = needle

\* the sequences over S of length lo..hi
SeqsBetween(S, lo, hi) == UNION {[1..n -> S] : n \in lo..hi}

\* the first index of s holding a member of S, 0 when there is none (str.find)
FirstIdx(s, S) ==
    IF \E i \in 1..Len(s) : s[i] \in S
    THEN CHOOSE i \in 1..Len(s) : s[i] \in S /\ \A j \in 1..(i - 1) : s[j] \notin S
    ELSE 0

\* the last index of s holding a member of S, 0 when there is none (str.rfind)
LastIdx(s, S) ==
    IF \E i \in 1..Len(s) : s[i] \in S
    THEN CHOOSE i \in 1..Len(s) : s[i] \in S /\ \A j \in (i + 1)..Len(s) : s[j] \notin S
    ELSE 0

Whitespace == {" ", "\n"}

\* str.strip()
Strip(s) ==
    LET a == FirstIdx(s, {s[i] : i \in 1..Len(s)} \ Whitespace)
        b == LastIdx(s, {s[i] : i \in 1..Len(s)} \ Whitespace)
    IN  IF a = 0 THEN <<>> ELSE SubSeq(s, a, b)

(***************************************************************************)
(* Skeleton Synthesizer: create_ppt_skeleton                               *)
(***************************************************************************)

\* Bounds of the inputs
MaxResponseTokens == 3
MaxQuestionLen == 36

\* the slice length of the question in the fallback title
TitleQuestionChars == 35

\* The JSON objects an LLM response may carry, each one token "{...}".
ObjectTokens == {"obj:template", "obj:three", "obj:retyped", "obj:noslides",
                 "obj:samenumber", "obj:othertype"}

\* The lexical tokens of an LLM response: white space, prose, a markdown
\* fence (FENCE), the word json, a lone brace, a JSON array without braces, and
\* the JSON objects.
Tokens == {" ", "prose", "FENCE", "json", "{", "}", "[1, 2]"} \cup ObjectTokens

OpenBrace == {"{"} \cup ObjectTokens     \* the tokens holding a "{"
CloseBrace == {"}"} \cup ObjectTokens    \* the tokens holding a "}"

Slide(no, title, type, content) ==
    [slide_no |-> no, title |-> title, type |-> type, content |-> content]

TemplateTypes == <<"title", "content", "chart", "chart", "content">>

\* the slides an LLM that honours the prompt returns
LlmSlides ==
    << Slide(1, <<"Executive Summary: Regional Sales">>, "title",
             << <<"West leads all regions">> >>),
       Slide(2, <<"Data Overview & Methodology">>, "content",
             << <<"Fifty rows of sales">>, <<"Grouped by region">>, <<"No missing values">> >>),
       Slide(3, <<"Sales Share by Region">>, "chart",
             << <<"West holds the largest share">>, <<"East follows">>, <<"Focus on West">> >>),
       Slide(4, <<"Sales by Region">>, "chart",
             << <<"West sells the most">>, <<"Sales fall to the south">>, <<"Invest in South">> >>),
       Slide(5, <<"Strategic Recommendations">>, "content",
             << <<"West is the growth engine">>, <<"Fund the West team">>, <<"Review in a quarter">> >>) >>

JsonDict(slides) == [kind |-> "dict", has_slides |-> TRUE, slides |-> slides]
JsonDictNoSlides == [kind |-> "dict", has_slides |-> FALSE, slides |-> <<>>]
JsonList == [kind |-> "list", has_slides |-> FALSE, slides |-> <<>>]
NoValue == [kind |-> "none", has_slides |-> FALSE, slides |-> <<>>]

\* what json.loads makes of one object token
ObjectValue(tok) ==
    CASE tok = "obj:template" -> JsonDict(LlmSlides)
      [] tok = "obj:three"    -> JsonDict(Take(LlmSlides, 3))
      [] tok = "obj:retyped"  -> JsonDict([i \in 1..5 |-> [LlmSlides[i] EXCEPT !.type = "content"]])
      [] tok = "obj:noslides" -> JsonDictNoSlides
      \* two chart slides numbered 3
      [] tok = "obj:samenumber" -> JsonDict([LlmSlides EXCEPT ![4].slide_no = 3])
      \* a slide of a type that is none of title, content and chart
      [] tok = "obj:othertype" -> JsonDict([LlmSlides EXCEPT ![2].type = "summary"])

\* response.split(FENCE)[1], FENCE the three-backquote markdown fence: the text between the first fence and the next
FenceSegment(s) ==
    LET rest == Drop(s, FirstIdx(s, {"FENCE"}))
        nxt  == FirstIdx(rest, {"FENCE"})
    IN  IF nxt = 0 THEN rest ELSE Take(rest, nxt - 1)

\* lines 351-354: strip the markdown fence and a leading "json"
StripFence(s) ==
    IF FirstIdx(s, {"FENCE"}) = 0 THEN s
    ELSE LET seg == Strip(FenceSegment(s))
         IN  IF seg /= <<>> /\ Head(seg) = "json" THEN Strip(Tail(seg)) ELSE seg

\* lines 356-359: cut the text from the first "{" to the last "}"
IsolatePayload(s) ==
    LET start == FirstIdx(s, OpenBrace)
        last  == LastIdx(s, CloseBrace)
    IN  IF start /= 0 /\ (last > start \/ (last = start /\ s[start] \in ObjectTokens))
        THEN SubSeq(s, start, last)
        ELSE s

\* the text without its white space tokens (JSON ignores white space
\* between its tokens)
Squeeze(s) ==
    LET keep == {i \in 1..Len(s) : s[i] \notin Whitespace}
        F[k \in 0..Len(s)] ==
            IF k = 0 THEN <<>>
            ELSE IF k \in keep THEN Append(F[k - 1], s[k]) ELSE F[k - 1]
    IN  F[Len(s)]

\* whether json.loads accepts the text
JsonParses(s) ==
    LET t == Squeeze(s)
    IN  \/ Len(t) = 1 /\ t[1] \in ObjectTokens \cup {"[1, 2]"}
        \/ t = <<"{", "}">>

\* the value json.loads returns for a text it accepts
JsonLoads(s) ==
    LET t == Squeeze(s)
    IN  IF Len(t) = 1 /\ t[1] \in ObjectTokens THEN ObjectValue(t[1])
        ELSE IF Len(t) = 1 THEN JsonList
        ELSE JsonDictNoSlides

\* lines 365-373: the hardcoded fallback skeleton, given the slice of the
\* question that ends slide 1's title
FallbackSlides(questionSlice) ==
    << Slide(1, <<"Executive Summary: ">> \o questionSlice, "title",
             << <<"Key insights and findings from comprehensive data analysis">> >>),
       Slide(2, <<"Data Overview & Analysis Approach">>, "content",
             << <<"Dataset scope and key characteristics">>,
                <<"Analytical methodology and tools applied">>,
                <<"Data quality assessment and validation">> >>),
       Slide(3, <<"Primary Data Insights">>, "chart",
             << <<"Most significant patterns discovered in data">>,
                <<"Critical trends affecting business outcomes">>,
                <<"Key performance indicators and metrics">> >>),
       Slide(4, <<"Detailed Analysis Results">>, "chart",
             << <<"In-depth examination of key variables">>,
                <<"Correlation and causation relationships found">>,
                <<"Predictive insights and future implications">> >>),
       Slide(5, <<"Strategic Recommendations">>, "content",
             << <<"Primary business recommendations based on data">>,
                <<"Immediate action items for implementation">>,
                <<"Long-term strategic opportunities identified">> >>) >>

\* the fallback with one character less of the question in its title
FallbackSkeleton_ShortSlice(question) ==
    JsonDict(FallbackSlides(Take(question, TitleQuestionChars - 1)))

\* line 367: original_question[:35] ends the title of slide 1
FallbackSkeleton(question) ==
    JsonDict(FallbackSlides(Take(question, TitleQuestionChars)))

\* lines 348-359: the payload handed to json.loads
SkeletonPayload(text) == IsolatePayload(StripFence(Strip(text)))

\* the characters of the questions asked
QuestionChar(i) == <<"w", "h", "o", " ">>[(i % 4) + 1]
QuestionOfLen(n) == [i \in 1..n |-> QuestionChar(i)]
QuestionLens == {0, 3, TitleQuestionChars - 1, TitleQuestionChars, MaxQuestionLen}

\* what the LLM collaborator does on one call: it raises, or returns a text
LlmOutcomes(texts) ==
    {[raises |-> TRUE, text |-> <<>>]} \cup {[raises |-> FALSE, text |-> t] : t \in texts}

SkeletonResponses == SeqsBetween(Tokens, 0, MaxResponseTokens)

SkInit ==
    /\ skPc = "call"
    /\ skQuestion \in {QuestionOfLen(n) : n \in QuestionLens}
    /\ skLlm \in LlmOutcomes(SkeletonResponses)
    /\ skPath = "none"
    /\ skResult = NoValue

SkIdle ==
    /\ skPc = "off"
    /\ skQuestion = <<>>
    /\ skLlm = [raises |-> TRUE, text |-> <<>>]
    /\ skPath = "none"
    /\ skResult = NoValue

\* create_ppt_skeleton, lines 324-373
create_ppt_skeleton ==
    /\ skPc = "call"
    /\ IF skLlm.raises
       THEN \* line 348: ai(prompt) raises outside the try block
            /\ skPc' = "raised"
            /\ UNCHANGED <<skPath, skResult>>
       ELSE LET payload == SkeletonPayload(skLlm.text)
            IN  /\ skPc' = "returned"
                /\ IF JsonParses(payload)
                   THEN /\ skPath' = "json"
                        /\ skResult' = JsonLoads(payload)
                   ELSE /\ skPath' = "fallback"
                        /\ skResult' = FallbackSkeleton(skQuestion)
    /\ UNCHANGED <<skQuestion, skLlm>>
    /\ SkFrame

SkNext == create_ppt_skeleton

(***************************************************************************)
(* Content Enhancer: enhance_slide_content                                 *)
(***************************************************************************)

\* Bounds of the inputs
MaxOutline == 5
MaxResponseLines == 4

\* line 407: a cleaned line is kept when it is longer than this
MinLineLen == 10
\* line 411: at most this many bullets are kept
MaxBullets == 4

\* line 406: the characters of the class [•\-*►▪▫◦‣\d+\.\s]; "U+2022" stands
\* for the one-character bullet glyphs
LeadingClass == {"U+2022", "-", "*", "+", ".", "0", "1", "2", "3", "4", "5",
                 "6", "7", "8", "9"} \cup Whitespace

\* n copies of the character c
Rep(c, n) == [i \in 1..n |-> c]

\* s.split(sep) for a one-character separator
RECURSIVE Split(_, _)
Split(s, sep) ==
    LET i == FirstIdx(s, {sep})
    IN  IF i = 0 THEN <<s>>
        ELSE <<SubSeq(s, 1, i - 1)>> \o Split(Drop(s, i), sep)

\* sep.join(parts)
RECURSIVE Join(_, _)
Join(parts, sep) ==
    IF parts = <<>> THEN <<>>
    ELSE IF Len(parts) = 1 THEN parts[1]
    ELSE parts[1] \o <<sep>> \o Join(Tail(parts), sep)

\* line 406: re.sub(r'^[...]+', '', line): drop the leading run of class
\* characters
StripLeadingClass(line) ==
    LET i == FirstIdx(line, {line[k] : k \in 1..Len(line)} \ LeadingClass)
    IN  IF i = 0 THEN <<>> ELSE Drop(line, i - 1)

\* lines 403-406: one response line, cleaned
CleanLine(line) == Strip(StripLeadingClass(Strip(line)))

\* line 407: the test that keeps a cleaned line
Usable(line) == line /= <<>> /\ Len(line) > MinLineLen

\* lines 398-408: the cleaned lines of the response that are kept, in order
EnhancedPoints(text) ==
    LET lines == Split(Strip(text), "\n")
        F[k \in 0..Len(lines)] ==
            IF k = 0 THEN <<>>
            ELSE IF Usable(CleanLine(lines[k]))
                 THEN Append(F[k - 1], CleanLine(lines[k]))
                 ELSE F[k - 1]
    IN  F[Len(lines)]

\* the enhanced points with no fallback to the outline
SlideContent_NoFallback(enhanced, outline) == Take(enhanced, MaxBullets)

\* line 411: enhanced_points[:4] if enhanced_points else outline_points[:4]
SlideContent(enhanced, outline) ==
    IF enhanced /= <<>> THEN Take(enhanced, MaxBullets) ELSE Take(outline, MaxBullets)

\* The lines an LLM response is made of: an empty line, a dashed line of 10
\* characters, a numbered line of 11, a starred line of 12 with an inner
\* space and trailing blanks, a line of 11 digits, and an unnumbered line.
ResponseLines ==
    { <<>>,
      <<"-", " ">> \o Rep("s", 10),
      <<"1", ".", " ">> \o Rep("n", 11),
      <<"*", " ">> \o Rep("b", 6) \o <<" ">> \o Rep("b", 5) \o <<" ", " ">>,
      Rep("7", 11),
      \* a sentence that starts with a year: 15 characters
      <<"2", "0", "2", "4", " ">> \o Rep("r", 10) }

EnhanceResponses ==
    {Join(ls, "\n") : ls \in SeqsBetween(ResponseLines, 1, MaxResponseLines)}

\* the outline bullets of the slide handed in
DigitChars == <<"1", "2", "3", "4", "5", "6", "7", "8", "9">>
OutlineOfLen(n) == [i \in 1..n |-> <<"Outline point ", DigitChars[i]>>]

EnhancedSlideTitle == <<"Sales by Region">>

EnInit ==
    /\ enPc = "call"
    /\ enOutline \in {OutlineOfLen(n) : n \in 0..MaxOutline}
    /\ enLlm \in LlmOutcomes(EnhanceResponses)
    /\ enSlide = Slide(3, EnhancedSlideTitle, "chart", enOutline)

EnIdle ==
    /\ enPc = "off"
    /\ enOutline = <<>>
    /\ enLlm = [raises |-> TRUE, text |-> <<>>]
    /\ enSlide = Slide(3, EnhancedSlideTitle, "chart", <<>>)

\* enhance_slide_content, lines 375-412
enhance_slide_content ==
    /\ enPc = "call"
    /\ IF enLlm.raises
       THEN \* line 398: ai(prompt) raises, nothing catches it
            /\ enPc' = "raised"
            /\ UNCHANGED enSlide
       ELSE /\ enPc' = "returned"
            /\ enSlide' = [enSlide EXCEPT
                   !.content = SlideContent(EnhancedPoints(enLlm.text), enSlide.content)]
    /\ UNCHANGED <<enOutline, enLlm>>
    /\ EnFrame

EnNext == enhance_slide_content

(***************************************************************************)
(* Query Executor: execute_pandas_query                                    *)
(***************************************************************************)

\* Bound of the inputs
MaxDatasetRows == 11

\* line 47: df.head(10)
FallbackRows == 10

Table(columns, rows) == [columns |-> columns, rows |-> rows]

\* df.head(n)
HeadRows(df, n) == Table(df.columns, Take(df.rows, n))

\* the datasets: Region and Sales, row i carrying region i
DatasetColumns == <<"Region", "Sales">>
DatasetOfRows(n) == Table(DatasetColumns, [i \in 1..n |-> <<i, (i * 7) % 5>>])

\* the column of a table named name, as a sequence of cells
ColumnIndex(df, name) == CHOOSE k \in 1..Len(df.columns) : df.columns[k] = name
ColumnCells(df, name) == [i \in 1..Len(df.rows) |-> df.rows[i][ColumnIndex(df, name)]]

RECURSIVE SumSeq(_)
SumSeq(s) == IF s = <<>> THEN 0 ELSE Head(s) + SumSeq(Tail(s))

\* The expressions a query text may hold, each one token.
Expressions ==
    { "df", "df.head(3)", "df['Sales']", "df['Sales'].sum()", "df['Profit']",
      "exit()", "df.drop(df.index[:1], inplace=True) or df['Profit']" }

\* line 32: re.sub(r'FENCE.*?\n|FENCE', '', query): a fence goes with the
\* rest of its line when a newline follows it, and alone otherwise
RECURSIVE RemoveFences(_)
RemoveFences(s) ==
    LET i    == FirstIdx(s, {"FENCE"})
        rest == Drop(s, i)
        j    == FirstIdx(rest, {"\n"})
    IN  IF i = 0 THEN s
        ELSE Take(s, i - 1) \o RemoveFences(IF j = 0 THEN rest ELSE Drop(rest, j))

CleanQuery(query) == Strip(RemoveFences(query))

\* line 35: eval(query) with df bound to the dataset: the exception class it
\* raises ("none" when it returns), what it returns, and the dataset object
\* after it ran
EvalOutcome(raises, kind, value, df) ==
    [raises |-> raises, kind |-> kind, value |-> value, df |-> df]

Eval(query, df) ==
    LET empty == Table(<<>>, <<>>)
    IN  IF Len(query) /= 1 \/ query[1] \notin Expressions
        THEN EvalOutcome("SyntaxError", "none", empty, df)
        ELSE CASE query[1] = "df" -> EvalOutcome("none", "DataFrame", df, df)
               [] query[1] = "df.head(3)" ->
                      EvalOutcome("none", "DataFrame", HeadRows(df, 3), df)
               [] query[1] = "df['Sales']" ->
                      EvalOutcome("none", "Series",
                          Table(<<"Sales">>,
                                [i \in 1..Len(df.rows) |-> <<ColumnCells(df, "Sales")[i]>>]),
                          df)
               [] query[1] = "df['Sales'].sum()" ->
                      EvalOutcome("none", "scalar",
                          Table(<<"0">>, << <<SumSeq(ColumnCells(df, "Sales"))>> >>), df)
               [] query[1] = "df['Profit']" -> EvalOutcome("KeyError", "none", empty, df)
               [] query[1] = "exit()" -> EvalOutcome("SystemExit", "none", empty, df)
               [] query[1] = "df.drop(df.index[:1], inplace=True) or df['Profit']" ->
                      EvalOutcome("KeyError", "none", empty,
                                  Table(df.columns, Drop(df.rows, 1)))

\* the exception classes that derive from Exception (line 45 catches them)
ExceptionClasses == {"SyntaxError", "KeyError"}

\* the whole dataset instead of its head
QueryFallback_WholeFrame(df) == df

\* line 47: return df.head(10)
QueryFallback(df) == HeadRows(df, FallbackRows)

\* the query texts: the bare expression, a fenced block with a language
\* line, a fence on the expression's own line, an inline fence, and the
\* expression with a prefix the LLM added
QueryTexts ==
    UNION { { <<e>>,
              <<"FENCE", "python", "\n", e, "\n", "FENCE">>,
              <<"FENCE", e, "\n", "FENCE">>,
              <<"FENCE", e, "FENCE">>,
              <<"python", "\n", e>>,
              <<" ", e, "\n">> } : e \in Expressions }

QeInit ==
    /\ qePc = "call"
    /\ qeQuery \in QueryTexts
    /\ qeDf0 \in {DatasetOfRows(n) : n \in 0..MaxDatasetRows}
    /\ qeDf = qeDf0
    /\ qeResult = Table(<<>>, <<>>)

QeIdle ==
    /\ qePc = "off"
    /\ qeQuery = <<>>
    /\ qeDf0 = Table(<<>>, <<>>)
    /\ qeDf = qeDf0
    /\ qeResult = Table(<<>>, <<>>)

\* execute_pandas_query, lines 28-47
execute_pandas_query ==
    /\ qePc = "call"
    /\ LET out == Eval(CleanQuery(qeQuery), qeDf)
       IN  /\ qeDf' = out.df
           /\ IF out.raises = "none"
              THEN \* lines 38-44: a DataFrame as it is, a Series by to_frame,
                   \* anything else as a one-row DataFrame
                   /\ qePc' = "returned"
                   /\ qeResult' = out.value
              ELSE IF out.raises \in ExceptionClasses
              THEN \* lines 45-47
                   /\ qePc' = "returned"
                   /\ qeResult' = QueryFallback(out.df)
              ELSE \* not an Exception: the handler of line 45 lets it pass
                   /\ qePc' = "raised"
                   /\ UNCHANGED qeResult
    /\ UNCHANGED <<qeQuery, qeDf0>>
    /\ QeFrame

QeNext == execute_pandas_query

(***************************************************************************)
(* Chart Selector/Renderer: generate_chart                                 *)
(***************************************************************************)

\* Bound of the inputs
MaxChartRows == 27

\* line 68: at most this many rows are plotted
SampleRows == 25
\* lines 86 and 156: a pie takes at most this many rows
PieRowsCap == 8

UpperCase == <<"A", "B", "C", "D", "E", "F", "G", "H", "I", "J", "K", "L", "M",
               "N", "O", "P", "Q", "R", "S", "T", "U", "V", "W", "X", "Y", "Z">>
LowerCase == <<"a", "b", "c", "d", "e", "f", "g", "h", "i", "j", "k", "l", "m",
               "n", "o", "p", "q", "r", "s", "t", "u", "v", "w", "x", "y", "z">>

\* str.lower()
LowerChar(c) ==
    IF \E k \in 1..26 : UpperCase[k] = c
    THEN LowerCase[CHOOSE k \in 1..26 : UpperCase[k] = c]
    ELSE c
Lower(s) == [i \in 1..Len(s) |-> LowerChar(s[i])]

\* A DataFrame with the dtype of each column: numeric[k] says whether
\* column k is numeric.
TypedTable(columns, numeric, rows) ==
    [columns |-> columns, numeric |-> numeric, rows |-> rows]

\* the values of the rows: rising, falling, and mixed with ties
CellValue(pattern, i) ==
    CASE pattern = "rising"  -> i
      [] pattern = "falling" -> 100 - i
      [] pattern = "mixed"   -> (i * 7) % 11

ChartRowCounts == {0, 3, PieRowsCap, PieRowsCap + 1, SampleRows, SampleRows + 1, MaxChartRows}

\* the result tables: one column or two, the value column numeric or text
ChartTables ==
    { TypedTable(<<"Region", "Sales">>, <<FALSE, TRUE>>,
                 [i \in 1..n |-> <<i, CellValue(pt, i)>>]) :
          n \in ChartRowCounts, pt \in {"rising", "falling", "mixed"} }
    \cup
    { TypedTable(<<"Region", "Manager">>, <<FALSE, FALSE>>,
                 [i \in 1..n |-> <<i, "name">>]) : n \in ChartRowCounts }
    \cup
    { TypedTable(<<"Sales">>, <<TRUE>>, [i \in 1..n |-> <<CellValue(pt, i)>>]) :
          n \in ChartRowCounts, pt \in {"rising", "mixed"} }
    \cup
    { TypedTable(<<"Region">>, <<FALSE>>, [i \in 1..n |-> <<i>>]) : n \in ChartRowCounts }

\* the questions: f"{original_question} - {title}"
ChartQuestions ==
    { <<"S", "a", "l", "e", "s">>,
      <<"S", "l", "i", "d", "e", " ", "3", ":", " ", "s", "h", "a", "r", "e">>,
      <<"s", "l", "i", "d", "e", " ", "4">> }

\* line 435 of ppt_generator.py: os.path.join(chart_dir, f"chart_{slide_no}.png")
ChartPath(slide_no) ==
    <<"c", "h", "a", "r", "t", "s", "/", "c", "h", "a", "r", "t", "_">>
        \o slide_no \o <<".", "p", "n", "g">>

ChartSlideNos == { <<"3">>, <<"4">>, <<"5">> }

\* the texts the classifier LLM may answer
ClassifierTexts ==
    { <<"b", "a", "r">>, <<"P", "i", "e">>, <<" ", "p", "i", "e", "\n">>,
      <<"l", "i", "n", "e">> }

\* determine_chart_type, lines 16-38, given the text ai(prompt) returned
determine_chart_type(text) ==
    LET response == Lower(Strip(text))
    IN  IF response = <<"b", "a", "r">> THEN "bar"
        ELSE IF response = <<"p", "i", "e">> THEN "pie"
        ELSE "bar"

\* lines 52-56: the hardcoded override of the chart type
OverrideChartType(chart_type, question, path) ==
    IF Contains(Lower(question), <<"s", "l", "i", "d", "e", " ", "3">>)
       \/ Contains(path, <<"c", "h", "a", "r", "t", "_", "3">>)
    THEN "pie"
    ELSE IF Contains(Lower(question), <<"s", "l", "i", "d", "e", " ", "4">>)
            \/ Contains(path, <<"c", "h", "a", "r", "t", "_", "4">>)
    THEN "bar"
    ELSE chart_type

\* lines 59-64: with fewer than two columns, a copy of the table gets an
\* Index column (0, 1, ...) appended
WithIndexColumn(df) ==
    IF Len(df.columns) >= 2 THEN df
    ELSE TypedTable(Append(df.columns, "Index"), Append(df.numeric, TRUE),
                    [i \in 1..Len(df.rows) |-> Append(df.rows[i], i - 1)])

\* lines 67-70: df.head(25) if len(df) > 25 else df.copy()
Sample(df) ==
    IF Len(df.rows) > SampleRows THEN [df EXCEPT !.rows = Take(df.rows, SampleRows)]
    ELSE df

\* the DataFrame objects of a call of create_plotly_chart: the object the
\* caller passed, the object df.copy() makes, and the object the name df is
\* bound to
Objects(caller) == [caller |-> caller, copy |-> caller, df |-> "caller"]

\* lines 59-64 with the column written to the object the caller passed
PrepareData_NoCopy(o) ==
    IF Len(o.caller.columns) >= 2 THEN o
    ELSE [o EXCEPT !.caller = WithIndexColumn(o.caller)]

\* lines 59-64: with fewer than two columns df is bound to a copy (line 63)
\* and the Index column is written to the object df is bound to (line 64)
PrepareData(o) ==
    IF Len(o.caller.columns) >= 2 THEN o
    ELSE LET bound == [o EXCEPT !.copy = o.caller, !.df = "copy"]
         IN  [bound EXCEPT ![bound.df] = WithIndexColumn(bound[bound.df])]

\* the object the caller passed to generate_chart, after the call: only
\* create_plotly_chart writes to a frame, once the classifier has answered
\* and Plotly is installed (lines 190 and 47-48)
CallerFrame(plotly, df, first) ==
    IF first.raises \/ ~plotly THEN df
    ELSE PrepareData(Objects(df)).caller

\* DataFrame.nlargest(n, column): the n rows of the largest values, largest
\* first, rows of equal value in their original order
RECURSIVE NLargest(_, _, _)
NLargest(rows, n, k) ==
    IF n = 0 \/ rows = <<>> THEN <<>>
    ELSE LET best == CHOOSE i \in 1..Len(rows) :
                         /\ \A j \in 1..Len(rows) : rows[j][k] <= rows[i][k]
                         /\ \A j \in 1..(i - 1) : rows[j][k] < rows[i][k]
         IN  <<rows[best]>>
             \o NLargest(SubSeq(rows, 1, best - 1) \o SubSeq(rows, best + 1, Len(rows)),
                         n - 1, k)

\* every row of the frame
PieRows_Uncapped(df, y) == df.rows

\* lines 85-89 and 155-162: the rows of a pie, y the index of the value column
PieRows(df, y) ==
    IF df.numeric[y] THEN NLargest(df.rows, PieRowsCap, y)
    ELSE Take(df.rows, PieRowsCap)

Render(backend, chart_type, drawn, frame, rows, x, y, path) ==
    [backend |-> backend, chart_type |-> chart_type, drawn |-> drawn,
     frame |-> frame, rows |-> rows, x |-> x, y |-> y, path |-> path]

NoRender == Render("none", "none", "none", TypedTable(<<>>, <<>>, <<>>), <<>>, "", "", <<>>)

\* the figure Plotly draws, lines 77-93, from the sample and the columns
\* chosen in lines 59-64
PlotlyRender(df_sample, ncols, chart_type, path) ==
    LET x == IF ncols >= 2 THEN df_sample.columns[1] ELSE "Index"
        y == IF ncols >= 2 THEN 2 ELSE 1
    IN  Render("plotly", chart_type, chart_type, df_sample,
               IF chart_type = "pie" THEN PieRows(df_sample, y) ELSE df_sample.rows,
               x, df_sample.columns[y], path)

\* the figure Matplotlib draws, lines 134-172: nothing but empty axes when
\* the frame has fewer than two columns
MatplotlibRender(df, chart_type, path) ==
    IF Len(df.columns) >= 2
    THEN Render("matplotlib", chart_type, chart_type, df,
                IF chart_type = "pie" THEN PieRows(df, 2) ELSE df.rows,
                df.columns[1], df.columns[2], path)
    ELSE Render("matplotlib", chart_type, "empty", df, <<>>, "", "", path)

ChInit ==
    /\ chPc = "call"
    /\ chPlotly \in BOOLEAN
    /\ chTable \in ChartTables
    /\ chQuestion \in ChartQuestions
    /\ chPath \in {ChartPath(n) : n \in ChartSlideNos}
    /\ chCalls = <<>>
    /\ chRender = NoRender

\* generate_chart is not called; PLOTLY_AVAILABLE is as the import left it
ChOff ==
    /\ chPc = "off"
    /\ chTable = TypedTable(<<>>, <<>>, <<>>)
    /\ chQuestion = <<>>
    /\ chPath = <<>>
    /\ chCalls = <<>>
    /\ chRender = NoRender

ChIdle == ChOff /\ chPlotly = TRUE

\* generate_chart, lines 187-190, with create_plotly_chart, lines 45-121, and
\* create_enhanced_matplotlib_chart, lines 123-185: whether the call raises,
\* the answers of the classifier calls made, and what is drawn.  first and
\* second are what ai(prompt) does in the classifier calls; plotlyFails and
\* mplFails say whether drawing or writing the image raises in each backend.
ChartOutcome(raised, calls, render) == [raised |-> raised, calls |-> calls, render |-> render]

GenerateChart(plotly, df, question, path, first, second, plotlyFails, mplFails) ==
    IF first.raises
    THEN \* line 190: determine_chart_type raises because ai(prompt) does
         ChartOutcome(TRUE, <<"raises">>, NoRender)
    ELSE IF ~plotly
    THEN \* lines 48-49 and 126-127: Plotly is not installed; Matplotlib is
         \* called without the chart type and asks the classifier itself
         LET calls == <<determine_chart_type(first.text)>>
                       \o <<IF second.raises THEN "raises"
                            ELSE determine_chart_type(second.text)>>
         IN  IF second.raises \/ mplFails
             THEN ChartOutcome(TRUE, calls, NoRender)
             ELSE ChartOutcome(FALSE, calls,
                      MatplotlibRender(df, determine_chart_type(second.text), path))
    ELSE LET chart_type == OverrideChartType(determine_chart_type(first.text),
                                             question, path)
             o          == PrepareData(Objects(df))
             df_sample  == Sample(o[o.df])
             calls      == <<determine_chart_type(first.text)>>
         IN  IF ~plotlyFails
             THEN ChartOutcome(FALSE, calls,
                      PlotlyRender(df_sample, Len(df.columns), chart_type, path))
             ELSE \* lines 117-121: the fallback gets the sample and the type
                  IF mplFails
                  THEN ChartOutcome(TRUE, calls, NoRender)
                  ELSE ChartOutcome(FALSE, calls,
                           MatplotlibRender(df_sample, chart_type, path))

\* a call of generate_chart
generate_chart ==
    /\ chPc = "call"
    /\ \E first \in LlmOutcomes(ClassifierTexts), second \in LlmOutcomes(ClassifierTexts),
          plotlyFails \in BOOLEAN, mplFails \in BOOLEAN :
        LET out == GenerateChart(chPlotly, chTable, chQuestion, chPath,
                                 first, second, plotlyFails, mplFails)
        IN  /\ chPc' = IF out.raised THEN "raised" ELSE "returned"
            /\ chCalls' = out.calls
            /\ chRender' = IF out.raised THEN chRender ELSE out.render
            /\ chTable' = CallerFrame(chPlotly, chTable, first)
    /\ UNCHANGED <<chPlotly, chQuestion, chPath>>
    /\ ChFrame

ChNext == generate_chart

(***************************************************************************)
(* Layout Engine: SlideConfig and PPTTemplate                              *)
(***************************************************************************)

\* Bound: the slides laid out in one run
MaxLayoutSlides == 3

\* pptx.util.Inches: English Metric Units per inch
EmuPerInch == 914400

Geometry(left, top, width, height) ==
    [left_percent |-> left, top_percent |-> top,
     width_percent |-> width, height_percent |-> height]

\* SlideConfig, lines 17-119: the slide dimensions in tenths of an inch
\* (10 and 7.5 inches) and the percentage geometry of every element
SlideConfig ==
    [ SLIDE_WIDTH  |-> 100,
      SLIDE_HEIGHT |-> 75,
      TITLE_SLIDE |->
        [ title    |-> Geometry(10, 25, 80, 15),
          subtitle |-> Geometry(10, 60, 80, 20) ],
      CONTENT_SLIDE |->
        [ title   |-> Geometry(5, 10, 90, 15),
          content |-> Geometry(5, 30, 90, 70) ],
      CHART_SLIDE |->
        [ title |-> Geometry(5, 10, 90, 12),
          chart |-> Geometry(70, 24, 45, 60),
          text  |-> Geometry(5, 24, 40, 60) ],
      \* margin_left_percent and margin_right_percent of the text elements
      MARGIN_PERCENT |-> 2 ]

\* The percents at which the float product (percent / 100) * dimension *
\* 914400 falls just short of the exact integer, so that int() in Inches
\* truncates to one EMU less (width 10.0, height 7.5).
FloatShortWidth == {9, 18, 36, 41, 47, 57, 59, 69, 72, 82, 83, 87, 94}
FloatShortHeight == {3, 6, 9, 12, 18, 24, 29, 36, 41, 48, 57, 58, 71, 72, 82, 96, 97}

\* a percent_to_inches that measures from what is already laid out
percent_to_inches_Relative(config, percent_value, dimension_type) ==
    IF dimension_type = "width"
    THEN (percent_value * config.SLIDE_WIDTH * (EmuPerInch \div 100)) \div 10 + Len(lySlides)
    ELSE (percent_value * config.SLIDE_HEIGHT * (EmuPerInch \div 100)) \div 10 + Len(lySlides)

\* PPTTemplate.percent_to_inches, lines 128-133: the length in EMU
percent_to_inches(config, percent_value, dimension_type) ==
    IF dimension_type = "width"
    THEN (percent_value * config.SLIDE_WIDTH * (EmuPerInch \div 100)) \div 10
         - (IF percent_value \in FloatShortWidth THEN 1 ELSE 0)
    ELSE (percent_value * config.SLIDE_HEIGHT * (EmuPerInch \div 100)) \div 10
         - (IF percent_value \in FloatShortHeight THEN 1 ELSE 0)

\* one call of percent_to_inches, as it is logged
Call(config, percent, dim) ==
    [percent |-> percent, dim |-> dim, result |-> percent_to_inches(config, percent, dim)]

\* a shape positioned from the geometry of a config element
Shape(config, slide_type, element) ==
    LET g == config[slide_type][element]
    IN  [ slide_type |-> slide_type, element |-> element,
          left   |-> percent_to_inches(config, g.left_percent, "width"),
          top    |-> percent_to_inches(config, g.top_percent, "height"),
          width  |-> percent_to_inches(config, g.width_percent, "width"),
          height |-> percent_to_inches(config, g.height_percent, "height") ]

\* the calls of percent_to_inches that position one element
GeometryCalls(config, slide_type, element) ==
    LET g == config[slide_type][element]
    IN  { Call(config, g.left_percent, "width"), Call(config, g.top_percent, "height"),
          Call(config, g.width_percent, "width"), Call(config, g.height_percent, "height") }

\* lines 220-221 and 286-287: the two margins of a text frame
MarginCalls(config) == { Call(config, config.MARGIN_PERCENT, "width") }

\* a slide of the presentation: the layout it was added with, its title, its
\* body paragraphs and the picture on it (<<>> when there is none)
DocSlide(layout, title, body, picture) ==
    [layout |-> layout, title |-> title, body |-> body, picture |-> picture]

\* lines 226-230 and 290-296: each bullet is a paragraph "U+2022 bullet",
\* U+2022 the bullet glyph
BulletParagraphs(bullets) ==
    [i \in 1..Len(bullets) |-> <<"U+2022", " ">> \o bullets[i]]

\* apply_title_slide_styling, lines 140-181, on a new slide of layout 0: the
\* texts go to the placeholders the layout has
TitleSlide(title_text, subtitle_text, hasTitle, hasBody) ==
    DocSlide(0, IF hasTitle THEN title_text ELSE <<>>,
             IF hasBody THEN <<subtitle_text>> ELSE <<>>, <<>>)

\* a content slide that never gets its title
ContentSlide_Untitled(title_text, content_list, hasTitle, hasBody) ==
    DocSlide(1, <<>>, IF hasBody THEN BulletParagraphs(content_list) ELSE <<>>, <<>>)

\* apply_content_slide_styling, lines 183-239, on a new slide of layout 1
ContentSlide(title_text, content_list, hasTitle, hasBody) ==
    DocSlide(1, IF hasTitle THEN title_text ELSE <<>>,
             IF hasBody THEN BulletParagraphs(content_list) ELSE <<>>, <<>>)

\* a chart slide that is left without its texts when the image is missing
ChartSlide_BlankWithoutImage(title_text, chart_path, bullet_points, chartExists) ==
    IF chartExists
    THEN DocSlide(5, title_text, BulletParagraphs(bullet_points), chart_path)
    ELSE DocSlide(5, <<>>, <<>>, <<>>)

\* create_chart_slide, lines 241-307: a slide of layout 5 with a title box,
\* the picture when the file exists (line 267), and a box of bullets
ChartSlide(title_text, chart_path, bullet_points, chartExists) ==
    DocSlide(5, title_text, BulletParagraphs(bullet_points),
             IF chartExists THEN chart_path ELSE <<>>)

\* the arguments of the layout calls
LayoutTitles == { <<"Sales by Region">> }
LayoutBullets == { <<>>, << <<"West sells the most">>, <<"Invest in South">> >> }
LayoutChartPath == ChartPath(<<"4">>)
LayoutArgs(fn, title_text, bullets, chartExists) ==
    [fn |-> fn, title_text |-> title_text, bullets |-> bullets,
     chartExists |-> chartExists]

LyInit ==
    /\ lyConfig = SlideConfig
    /\ lySlides = <<>>
    /\ lyCalls = {}
    /\ lyDoc = <<>>
    /\ lyArgs = <<>>

LyIdle == LyInit

\* apply_title_slide_styling, lines 140-181, on a new slide of layout 0;
\* hasTitle and hasBody say which placeholders the layout has
apply_title_slide_styling ==
    /\ Len(lySlides) < MaxLayoutSlides
    /\ \E hasTitle \in BOOLEAN, hasBody \in BOOLEAN,
          title_text \in LayoutTitles, bullets \in LayoutBullets \ {<<>>} :
        /\ lyDoc' = Append(lyDoc, TitleSlide(title_text, Join(bullets, "\n"),
                                             hasTitle, hasBody))
        /\ lyArgs' = Append(lyArgs, LayoutArgs("apply_title_slide_styling",
                                               title_text, bullets, FALSE))
        /\ lySlides' = Append(lySlides,
               (IF hasTitle THEN <<Shape(lyConfig, "TITLE_SLIDE", "title")>> ELSE <<>>)
               \o (IF hasBody THEN <<Shape(lyConfig, "TITLE_SLIDE", "subtitle")>> ELSE <<>>))
        /\ lyCalls' = lyCalls
               \cup (IF hasTitle THEN GeometryCalls(lyConfig, "TITLE_SLIDE", "title") ELSE {})
               \cup (IF hasBody THEN GeometryCalls(lyConfig, "TITLE_SLIDE", "subtitle") ELSE {})
    /\ UNCHANGED lyConfig
    /\ LyFrame

\* apply_content_slide_styling, lines 183-239, on a new slide of layout 1
apply_content_slide_styling ==
    /\ Len(lySlides) < MaxLayoutSlides
    /\ \E hasTitle \in BOOLEAN, hasBody \in BOOLEAN,
          title_text \in LayoutTitles, bullets \in LayoutBullets \ {<<>>} :
        /\ lyDoc' = Append(lyDoc, ContentSlide(title_text, bullets, hasTitle, hasBody))
        /\ lyArgs' = Append(lyArgs, LayoutArgs("apply_content_slide_styling",
                                               title_text, bullets, FALSE))
        /\ lySlides' = Append(lySlides,
               (IF hasTitle THEN <<Shape(lyConfig, "CONTENT_SLIDE", "title")>> ELSE <<>>)
               \o (IF hasBody THEN <<Shape(lyConfig, "CONTENT_SLIDE", "content")>> ELSE <<>>))
        /\ lyCalls' = lyCalls
               \cup (IF hasTitle THEN GeometryCalls(lyConfig, "CONTENT_SLIDE", "title") ELSE {})
               \cup (IF hasBody
                     THEN GeometryCalls(lyConfig, "CONTENT_SLIDE", "content")
                          \cup MarginCalls(lyConfig)
                     ELSE {})
    /\ UNCHANGED lyConfig
    /\ LyFrame

\* create_chart_slide, lines 241-307; chartExists is os.path.exists(chart_path)
create_chart_slide ==
    /\ Len(lySlides) < MaxLayoutSlides
    /\ \E chartExists \in BOOLEAN, title_text \in LayoutTitles, bullets \in LayoutBullets :
        /\ lyDoc' = Append(lyDoc, ChartSlide(title_text, LayoutChartPath, bullets,
                                             chartExists))
        /\ lyArgs' = Append(lyArgs, LayoutArgs("create_chart_slide",
                                               title_text, bullets, chartExists))
        /\ lySlides' = Append(lySlides,
               <<Shape(lyConfig, "CHART_SLIDE", "title")>>
               \o (IF chartExists THEN <<Shape(lyConfig, "CHART_SLIDE", "chart")>> ELSE <<>>)
               \o <<Shape(lyConfig, "CHART_SLIDE", "text")>>)
        /\ lyCalls' = lyCalls
               \cup GeometryCalls(lyConfig, "CHART_SLIDE", "title")
               \cup (IF chartExists THEN GeometryCalls(lyConfig, "CHART_SLIDE", "chart") ELSE {})
               \cup GeometryCalls(lyConfig, "CHART_SLIDE", "text")
               \cup MarginCalls(lyConfig)
    /\ UNCHANGED lyConfig
    /\ LyFrame

\* the percents of direct calls of percent_to_inches
DirectPercents == {9, 24, 90}

\* a call of percent_to_inches on its own, lines 128-133
percent_to_inches_call ==
    /\ \E p \in DirectPercents, dim \in {"width", "height"} :
        lyCalls' = lyCalls \cup {Call(lyConfig, p, dim)}
    /\ UNCHANGED <<lyConfig, lySlides, lyDoc, lyArgs>>
    /\ LyFrame

LyNext ==
    \/ apply_title_slide_styling
    \/ apply_content_slide_styling
    \/ create_chart_slide
    \/ percent_to_inches_call

(***************************************************************************)
(* Template Loader and Pipeline Orchestrator: scan_pptx_templates,         *)
(* load_pptx_template, csv_to_ppt, analyze_data and create_presentation    *)
(***************************************************************************)

\* the literal "default"
Default == <<"d", "e", "f", "a", "u", "l", "t">>

\* the stems of the .pptx files a templates folder may hold
TemplateStems == { Default, <<"M", "y", "-", "T">> }

\* the template names a caller may pass
TemplateRequests ==
    { Default, <<"m", "y", "_", "t">>, <<"M", "y", "_", "T">>, <<"n", "o">> }

\* line 470: Path(f).stem.lower().replace(" ", "_").replace("-", "_")
TemplateName(stem) ==
    [i \in 1..Len(stem) |->
        IF LowerChar(stem[i]) \in {" ", "-"} THEN "_" ELSE LowerChar(stem[i])]

\* scan_pptx_templates, lines 458-477: the keys of the dict it returns; with
\* no file the dict is {"default": None}
ScannedNames(files) ==
    IF files = {} THEN {Default} ELSE {TemplateName(f) : f \in files}

\* whether the dict holds a path for the name (None is falsy, line 484)
HasTemplateFile(files, name) == \E f \in files : TemplateName(f) = name

\* the file the dict holds under the name
TemplateFile(files, name) == CHOOSE f \in files : TemplateName(f) = name

\* a Presentation: the built-in blank one, or one loaded from a template file
Prs(builtin, file, slides) == [builtin |-> builtin, file |-> file, slides |-> slides]
NoPrs == Prs(FALSE, <<>>, <<>>)

LoadOutcome(raised, prs) == [raised |-> raised, prs |-> prs]

\* The slide layouts of a presentation: their number, and whether layouts 0
\* and 1 have a title placeholder and a second placeholder.  Presentation()
\* has eleven layouts, with a title and a body in layouts 0 and 1.
Layouts(count, placeholders) == [count |-> count, placeholders |-> placeholders]
BuiltinLayouts == Layouts(11, TRUE)
TemplateLayouts == { BuiltinLayouts, Layouts(11, FALSE), Layouts(2, TRUE) }

\* load_pptx_template with no handler around Presentation(path)
load_pptx_template_NoHandler(files, corrupt, template_name) ==
    LET name == Lower(template_name)
    IN  IF name \in ScannedNames(files) /\ HasTemplateFile(files, name)
        THEN IF corrupt
             THEN LoadOutcome(TRUE, NoPrs)
             ELSE LoadOutcome(FALSE, Prs(FALSE, TemplateFile(files, name), <<>>))
        ELSE LoadOutcome(FALSE, Prs(TRUE, <<>>, <<>>))

\* load_pptx_template, lines 479-499: the template file emptied of its
\* slides, or Presentation() when there is no file or loading it raises
load_pptx_template(files, corrupt, template_name) ==
    LET name == Lower(template_name)
    IN  IF name \in ScannedNames(files) /\ HasTemplateFile(files, name)
        THEN IF corrupt
             THEN LoadOutcome(FALSE, Prs(TRUE, <<>>, <<>>))
             ELSE LoadOutcome(FALSE, Prs(FALSE, TemplateFile(files, name), <<>>))
        ELSE LoadOutcome(FALSE, Prs(TRUE, <<>>, <<>>))

\* analysis_result, lines 72-77 of csv_processor.py
Analysis(question, query, result, summary) ==
    [original_question |-> question, query |-> query, result |-> result,
     summary |-> summary]
NoAnalysis == Analysis(<<>>, <<>>, Table(<<>>, <<>>), <<>>)

\* the inputs of a run of csv_to_ppt
PipelineQuestion == <<"S", "a", "l", "e", "s">>
PipelineDataset == DatasetOfRows(MaxDatasetRows)

\* what the LLM answers at each call site of a run
PipelineQueries == { <<"df">>, <<"df['Sales']">>, <<"df['Profit']">>, <<"exit()">> }
PipelineSummaries == { <<"West leads all regions.">> }
PipelineSkeletons ==
    { <<"obj:template">>, <<"FENCE", "json", "obj:three", "FENCE">>, <<"prose">>,
      <<"[1, 2]">>, <<"obj:noslides">> }
PipelineEnhancements ==
    { <<>>,
      <<"-", " ">> \o Rep("s", 12) \o <<"\n", "1", ".", " ">> \o Rep("n", 11) }
PipelineClassifierTexts == { <<"b", "a", "r">>, <<"P", "i", "e">> }

\* the call sites of ai(prompt)
LlmSites == { "convert_query_to_pandas", "analyze_data", "create_ppt_skeleton",
              "enhance_slide_content", "determine_chart_type" }

PlInit ==
    /\ plEntry \in {"csv_to_ppt", "load_pptx_template"}
    /\ plPc = "start"
    /\ plFiles \in SUBSET TemplateStems
    /\ plCorrupt \in BOOLEAN
    /\ plFiles = {} => ~plCorrupt
    /\ plLayouts = BuiltinLayouts
    /\ plRequested \in TemplateRequests
    /\ plTemplate = plRequested
    /\ plDf = Table(<<>>, <<>>)
    /\ plAnalysis = NoAnalysis
    /\ plSkeleton = NoValue
    /\ plIdx = 0
    /\ plPrs = NoPrs
    /\ plCharts = <<>>
    /\ plLog = <<>>
    /\ plRaised = "none"
    /\ plReturn = "none"

PlIdle ==
    /\ plEntry = "none"
    /\ plPc = "off"
    /\ plFiles = {}
    /\ plCorrupt = FALSE
    /\ plLayouts = BuiltinLayouts
    /\ plRequested = Default
    /\ plTemplate = Default
    /\ plDf = Table(<<>>, <<>>)
    /\ plAnalysis = NoAnalysis
    /\ plSkeleton = NoValue
    /\ plIdx = 0
    /\ plPrs = NoPrs
    /\ plCharts = <<>>
    /\ plLog = <<>>
    /\ plRaised = "none"
    /\ plReturn = "none"

\* an exception leaves the function from the given call
PlRaise(site) ==
    /\ plPc' = "raised"
    /\ plRaised' = site

\* a direct call of load_pptx_template, lines 479-499
load_pptx_template_call ==
    /\ plEntry = "load_pptx_template"
    /\ plPc = "start"
    /\ LET out == load_pptx_template(plFiles, plCorrupt, plRequested)
       IN  IF out.raised
           THEN PlRaise("load_pptx_template") /\ UNCHANGED <<plPrs, plReturn>>
           ELSE /\ plPc' = "done"
                /\ plPrs' = out.prs
                /\ plReturn' = "prs"
                /\ UNCHANGED plRaised
    /\ UNCHANGED <<plEntry, plFiles, plCorrupt, plLayouts, plRequested, plTemplate, plDf,
                   plAnalysis, plSkeleton, plIdx, plCharts, plLog>>
    /\ PlFrame

\* csv_to_ppt, lines 29-34 of main.py: an unknown template becomes "default"
ValidateTemplate ==
    /\ plEntry = "csv_to_ppt"
    /\ plPc = "start"
    /\ plTemplate' = IF plTemplate \notin ScannedNames(plFiles) THEN Default ELSE plTemplate
    /\ plPc' = "load_csv"
    /\ UNCHANGED <<plEntry, plFiles, plCorrupt, plLayouts, plRequested, plDf, plAnalysis,
                   plSkeleton, plIdx, plPrs, plCharts, plLog, plRaised, plReturn>>
    /\ PlFrame

\* csv_to_ppt, lines 37-42 of main.py: load_csv, and return None when it raises
LoadCsv ==
    /\ plPc = "load_csv"
    /\ \E readable \in BOOLEAN :
        IF readable
        THEN /\ plDf' = PipelineDataset
             /\ plPc' = "convert_query"
             /\ UNCHANGED plReturn
        ELSE /\ plPc' = "done"
             /\ plReturn' = "None"
             /\ UNCHANGED plDf
    /\ UNCHANGED <<plEntry, plFiles, plCorrupt, plLayouts, plRequested, plTemplate, plAnalysis,
                   plSkeleton, plIdx, plPrs, plCharts, plLog, plRaised>>
    /\ PlFrame

\* analyze_data, line 53 of csv_processor.py: convert_query_to_pandas returns
\* the LLM's answer (line 26)
ConvertQuery ==
    /\ plPc = "convert_query"
    /\ \E llm \in LlmOutcomes(PipelineQueries) :
        IF llm.raises
        THEN PlRaise("convert_query_to_pandas") /\ UNCHANGED plAnalysis
        ELSE /\ plAnalysis' = Analysis(PipelineQuestion, llm.text, Table(<<>>, <<>>), <<>>)
             /\ plPc' = "execute_query"
             /\ UNCHANGED plRaised
    /\ UNCHANGED <<plEntry, plFiles, plCorrupt, plLayouts, plRequested, plTemplate, plDf,
                   plSkeleton, plIdx, plPrs, plCharts, plLog, plReturn>>
    /\ PlFrame

\* analyze_data, line 57 of csv_processor.py: execute_pandas_query
ExecuteQuery ==
    /\ plPc = "execute_query"
    /\ LET out == Eval(CleanQuery(plAnalysis.query), plDf)
       IN  /\ plDf' = out.df
           /\ IF out.raises = "none"
              THEN /\ plAnalysis' = [plAnalysis EXCEPT !.result = out.value]
                   /\ plPc' = "summary"
                   /\ UNCHANGED plRaised
              ELSE IF out.raises \in ExceptionClasses
              THEN /\ plAnalysis' = [plAnalysis EXCEPT !.result = QueryFallback(out.df)]
                   /\ plPc' = "summary"
                   /\ UNCHANGED plRaised
              ELSE PlRaise("execute_pandas_query") /\ UNCHANGED plAnalysis
    /\ UNCHANGED <<plEntry, plFiles, plCorrupt, plLayouts, plRequested, plTemplate,
                   plSkeleton, plIdx, plPrs, plCharts, plLog, plReturn>>
    /\ PlFrame

\* analyze_data, lines 60-77 of csv_processor.py: the summary call
Summarize ==
    /\ plPc = "summary"
    /\ \E llm \in LlmOutcomes(PipelineSummaries) :
        IF llm.raises
        THEN PlRaise("analyze_data") /\ UNCHANGED plAnalysis
        ELSE /\ plAnalysis' = [plAnalysis EXCEPT !.summary = llm.text]
             /\ plPc' = "skeleton"
             /\ UNCHANGED plRaised
    /\ UNCHANGED <<plEntry, plFiles, plCorrupt, plLayouts, plRequested, plTemplate, plDf,
                   plSkeleton, plIdx, plPrs, plCharts, plLog, plReturn>>
    /\ PlFrame

\* csv_to_ppt, lines 51-52 of main.py: create_ppt_skeleton, then
\* skeleton.get('slides', []), which a JSON array does not have
CreateSkeleton ==
    /\ plPc = "skeleton"
    /\ \E llm \in LlmOutcomes(PipelineSkeletons) :
        IF llm.raises
        THEN PlRaise("create_ppt_skeleton") /\ UNCHANGED plSkeleton
        ELSE LET payload  == SkeletonPayload(llm.text)
                 skeleton == IF JsonParses(payload) THEN JsonLoads(payload)
                             ELSE FallbackSkeleton(plAnalysis.original_question)
             IN  /\ plSkeleton' = skeleton
                 /\ IF skeleton.kind = "dict"
                    THEN plPc' = "create_presentation" /\ UNCHANGED plRaised
                    ELSE PlRaise("skeleton.get")
    /\ UNCHANGED <<plEntry, plFiles, plCorrupt, plLayouts, plRequested, plTemplate, plDf,
                   plAnalysis, plIdx, plPrs, plCharts, plLog, plReturn>>
    /\ PlFrame

\* the dtype of a column of the dataset and of the tables the queries make
NumericColumns == {"Sales", "0"}
AsTyped(df) ==
    TypedTable(df.columns, [k \in 1..Len(df.columns) |-> df.columns[k] \in NumericColumns],
               df.rows)

\* a step of create_presentation on the slide at position slide
Step(step, slide) == [step |-> step, slide |-> slide]

\* line 435: the path of the chart image of a slide
SlideChartPath(slide_data) == ChartPath(<<DigitChars[slide_data.slide_no]>>)

\* os.path.exists(chart_path), line 267
ChartExists(path) == \E k \in 1..Len(plCharts) : plCharts[k].path = path

\* a dispatch that renders no chart
AfterEnhance_NoChart(type) == "layout"

\* lines 427-433: after the enhancement only a chart slide gets a chart
AfterEnhance(type) == IF type = "chart" THEN "chart" ELSE "layout"

\* a loop that is left after its first slide
AfterLayout_SaveEarly(idx, count) == "save"

\* lines 424 and 454: after the layout of a slide the loop takes the next
\* entry, and the document is saved after the last one
AfterLayout(idx, count) == IF idx = count THEN "save" ELSE "enhance"

\* create_presentation, lines 418-424: load the template and enter the loop
\* over skeleton['slides'], a key a dict need not have
LoadTemplate ==
    /\ plPc = "create_presentation"
    /\ LET out == load_pptx_template(plFiles, plCorrupt, plTemplate)
       IN  IF out.raised
           THEN PlRaise("load_pptx_template") /\ UNCHANGED <<plPrs, plIdx>>
           ELSE /\ plPrs' = out.prs
                /\ IF ~plSkeleton.has_slides
                   THEN PlRaise("skeleton['slides']") /\ UNCHANGED plIdx
                   ELSE /\ plIdx' = 1
                        /\ plPc' = IF plSkeleton.slides = <<>> THEN "save" ELSE "enhance"
                        /\ UNCHANGED plRaised
    /\ UNCHANGED <<plEntry, plFiles, plCorrupt, plLayouts, plRequested, plTemplate, plDf,
                   plAnalysis, plSkeleton, plCharts, plLog, plReturn>>
    /\ PlFrame

\* create_presentation, line 425: enhance_slide_content on the slide in work,
\* then the dispatch on its type, lines 427-449
EnhanceSlide ==
    /\ plPc = "enhance"
    /\ \E llm \in LlmOutcomes(PipelineEnhancements) :
        IF llm.raises
        THEN PlRaise("enhance_slide_content") /\ UNCHANGED <<plSkeleton, plLog>>
        ELSE LET slide == plSkeleton.slides[plIdx]
             IN  /\ plSkeleton' = [plSkeleton EXCEPT !.slides[plIdx].content =
                        SlideContent(EnhancedPoints(llm.text), slide.content)]
                 /\ plLog' = Append(plLog, Step("enhance", plIdx))
                 /\ plPc' = AfterEnhance(slide.type)
                 /\ UNCHANGED plRaised
    /\ UNCHANGED <<plEntry, plFiles, plCorrupt, plLayouts, plRequested, plTemplate, plDf,
                   plAnalysis, plIdx, plPrs, plCharts, plReturn>>
    /\ PlFrame

\* create_presentation, lines 435-440: generate_chart for a chart slide
RenderChart ==
    /\ plPc = "chart"
    /\ \E first \in LlmOutcomes(PipelineClassifierTexts),
          second \in LlmOutcomes(PipelineClassifierTexts),
          plotlyFails \in BOOLEAN, mplFails \in BOOLEAN :
        LET slide == plSkeleton.slides[plIdx]
            out   == GenerateChart(chPlotly, AsTyped(plAnalysis.result),
                         plAnalysis.original_question \o <<" ", "-", " ">> \o slide.title,
                         SlideChartPath(slide), first, second, plotlyFails, mplFails)
            \* analysis_result['result'] is the object generate_chart is given
            after == CallerFrame(chPlotly, AsTyped(plAnalysis.result), first)
        IN  /\ plAnalysis' = [plAnalysis EXCEPT !.result = Table(after.columns, after.rows)]
            /\ IF out.raised
               THEN /\ PlRaise(IF out.calls[Len(out.calls)] = "raises"
                               THEN "determine_chart_type" ELSE "generate_chart")
                    /\ UNCHANGED <<plCharts, plLog>>
               ELSE /\ plCharts' = Append(plCharts, out.render)
                    /\ plLog' = Append(plLog, Step("chart", plIdx))
                    /\ plPc' = "layout"
                    /\ UNCHANGED plRaised
    /\ UNCHANGED <<plEntry, plFiles, plCorrupt, plLayouts, plRequested, plTemplate, plDf,
                   plSkeleton, plIdx, plPrs, plReturn>>
    /\ PlFrame

\* the index of the slide layout a slide type is added with, lines 429,
\* 247 and 451
LayoutIndex(type) == IF type = "title" THEN 0 ELSE IF type = "chart" THEN 5 ELSE 1

\* create_presentation, lines 427-452: the slide is added with the layout of
\* its type, which prs.slide_layouts may not have, and the loop moves on
LayoutSlide ==
    /\ plPc = "layout"
    /\ LET slide   == plSkeleton.slides[plIdx]
           layouts == IF plPrs.builtin THEN BuiltinLayouts ELSE plLayouts
           ph      == layouts.placeholders
           added   ==
               IF slide.type = "title"
               THEN TitleSlide(slide.title, Join(slide.content, "\n"), ph, ph)
               ELSE IF slide.type = "chart"
               THEN ChartSlide(slide.title, SlideChartPath(slide), slide.content,
                               ChartExists(SlideChartPath(slide)))
               ELSE ContentSlide(slide.title, slide.content, ph, ph)
       IN  IF LayoutIndex(slide.type) >= layouts.count
           THEN PlRaise("prs.slide_layouts") /\ UNCHANGED <<plPrs, plLog, plIdx>>
           ELSE /\ plPrs' = [plPrs EXCEPT !.slides = Append(@, added)]
                /\ plLog' = Append(plLog, Step("layout", plIdx))
                /\ plIdx' = plIdx + 1
                /\ plPc' = AfterLayout(plIdx, Len(plSkeleton.slides))
                /\ UNCHANGED plRaised
    /\ UNCHANGED <<plEntry, plFiles, plCorrupt, plLayouts, plRequested, plTemplate, plDf,
                   plAnalysis, plSkeleton, plCharts, plReturn>>
    /\ PlFrame

\* create_presentation, lines 454-456, and csv_to_ppt, lines 64-65 of main.py:
\* prs.save(output_filename) and the return of the path
SavePresentation ==
    /\ plPc = "save"
    /\ \E writable \in BOOLEAN :
        IF writable
        THEN /\ plLog' = Append(plLog, Step("save", plIdx))
             /\ plPc' = "done"
             /\ plReturn' = "output_filename"
             /\ UNCHANGED plRaised
        ELSE PlRaise("prs.save") /\ UNCHANGED <<plLog, plReturn>>
    /\ UNCHANGED <<plEntry, plFiles, plCorrupt, plLayouts, plRequested, plTemplate, plDf,
                   plAnalysis, plSkeleton, plIdx, plPrs, plCharts>>
    /\ PlFrame

PlNext ==
    \/ load_pptx_template_call
    \/ ValidateTemplate
    \/ LoadCsv
    \/ ConvertQuery
    \/ ExecuteQuery
    \/ Summarize
    \/ CreateSkeleton
    \/ LoadTemplate
    \/ EnhanceSlide
    \/ RenderChart
    \/ LayoutSlide
    \/ SavePresentation

(***************************************************************************)
(* Chatbot: chatbot and chatbot_loop                                       *)
(***************************************************************************)

\* Bound: the prompts of one session
MaxChatInputs == 3

\* the exit commands without quit
ExitCommands_NoQuit == { <<"/", "e", "x", "i", "t">>, <<"e", "x", "i", "t">> }

\* line 62 of chatbot.py: the inputs that end the loop
ExitCommands ==
    { <<"/", "e", "x", "i", "t">>, <<"e", "x", "i", "t">>, <<"q", "u", "i", "t">> }

\* what input() does at a prompt: it returns a line, or raises
\* KeyboardInterrupt (Ctrl+C) or EOFError (the input has ended)
ChatEvent(kind, text) == [kind |-> kind, text |-> text]
ChatLines ==
    { <<>>, <<" ", " ">>, <<"/", "e", "x", "i", "t">>, <<" ", "E", "x", "i", "t", " ">>,
      <<"Q", "U", "I", "T">>, <<"e", "x", "i", "t", " ", "n", "o", "w">>, <<"h", "i">> }
ChatEvents ==
    {ChatEvent("line", t) : t \in ChatLines}
    \cup {ChatEvent("KeyboardInterrupt", <<>>), ChatEvent("EOFError", <<>>)}

\* what ai(prompt) answers in a session
ChatResponses == { <<" ", "W", "e", "s", "t", "\n">> }

ChatOutcome(raised, answer) == [raised |-> raised, answer |-> answer]

\* chatbot with no handler around ai(prompt)
chatbot_NoHandler(llm) ==
    IF llm.raises THEN ChatOutcome(TRUE, <<>>)
    ELSE ChatOutcome(FALSE, Strip(llm.text))

\* chatbot, lines 4-31 of chatbot.py: the stripped response, or the error
\* message when ai(prompt) raises an Exception
chatbot(llm) ==
    IF llm.raises THEN ChatOutcome(FALSE, <<"Error generating answer: ", "e">>)
    ELSE ChatOutcome(FALSE, Strip(llm.text))

CbInit ==
    /\ cbPc = "prompt"
    /\ cbInputs = <<>>
    /\ cbQuestion = <<>>
    /\ cbAnswers = <<>>
    /\ cbEnd = "none"

CbIdle ==
    /\ cbPc = "off"
    /\ cbInputs = <<>>
    /\ cbQuestion = <<>>
    /\ cbAnswers = <<>>
    /\ cbEnd = "none"

\* chatbot_loop, lines 54-64 of chatbot.py: one prompt.  Ctrl+C breaks the
\* loop (line 56); EOFError is an Exception, which the handler of line 69
\* catches outside the loop; a blank line prompts again; an exit command
\* breaks the loop.
ChatPrompt ==
    /\ cbPc = "prompt"
    /\ Len(cbInputs) < MaxChatInputs
    /\ \E ev \in ChatEvents :
        /\ cbInputs' = Append(cbInputs, ev)
        /\ IF ev.kind = "KeyboardInterrupt"
           THEN cbPc' = "ended" /\ cbEnd' = "Ctrl+C at the prompt" /\ UNCHANGED cbQuestion
           ELSE IF ev.kind = "EOFError"
           THEN cbPc' = "ended" /\ cbEnd' = "EOFError" /\ UNCHANGED cbQuestion
           ELSE LET user_q == Strip(ev.text)
                IN  IF user_q = <<>>
                    THEN UNCHANGED <<cbPc, cbEnd, cbQuestion>>
                    ELSE IF Lower(user_q) \in ExitCommands
                    THEN cbPc' = "ended" /\ cbEnd' = "exit command" /\ UNCHANGED cbQuestion
                    ELSE cbPc' = "answering" /\ cbQuestion' = user_q /\ UNCHANGED cbEnd
    /\ UNCHANGED cbAnswers
    /\ CbFrame

\* chatbot_loop, lines 66-67 of chatbot.py: the answer of chatbot is
\* printed and the loop prompts again; an exception out of chatbot would be
\* caught by the handler of line 69, outside the loop
ChatAnswer ==
    /\ cbPc = "answering"
    /\ \E llm \in LlmOutcomes(ChatResponses) :
        LET out == chatbot(llm)
        IN  IF out.raised
            THEN /\ cbPc' = "ended"
                 /\ cbEnd' = "exception from chatbot"
                 /\ UNCHANGED cbAnswers
            ELSE /\ cbPc' = "prompt"
                 /\ cbAnswers' = Append(cbAnswers,
                        [question |-> cbQuestion, failed |-> llm.raises,
                         answer |-> out.answer])
                 /\ UNCHANGED cbEnd
    /\ UNCHANGED <<cbInputs, cbQuestion>>
    /\ CbFrame

\* Ctrl+C while chatbot runs, lines 66 and 27-31 of chatbot.py:
\* KeyboardInterrupt is not an Exception, so neither chatbot nor the handler
\* of line 69 catches it and it leaves chatbot_loop
ChatInterruptAnswer ==
    /\ cbPc = "answering"
    /\ cbPc' = "ended"
    /\ cbEnd' = "KeyboardInterrupt raised"
    /\ UNCHANGED <<cbInputs, cbQuestion, cbAnswers>>
    /\ CbFrame

CbNext ==
    \/ ChatPrompt
    \/ ChatAnswer
    \/ ChatInterruptAnswer

(***************************************************************************)
(* Font fit helper: fit_text_to_textbox, src/ppt_generator.py 501-523      *)
(***************************************************************************)
\* most lines a fitted text has
MaxTextLines == 7

\* max_font_size=16, min_font_size=10, line 501
DefaultMaxFontSize == 16
DefaultMinFontSize == 10

\* the font sizes a caller passes
FontSizes == DefaultMinFontSize..DefaultMaxFontSize

\* a text, by what the helper reads of it: its line breaks and its other
\* characters
Text(newlines, others) == [newlines |-> newlines, others |-> others]

\* len(text), line 506
TextLen(text) == text.newlines + text.others

\* text.count('\n') + 1, line 507
LineCount(text) == text.newlines + 1

\* lengths on both sides of each threshold of lines 509-513
TextLengths == {0, 100, 101, 200, 201, 300, 301}

Texts ==
    { Text(n - 1, len - (n - 1)) :
        <<n, len>> \in { c \in (1..MaxTextLines) \X TextLengths : c[2] >= c[1] - 1 } }

\* font_size, lines 509-516
fit_text_to_textbox(text, max_font_size, min_font_size) ==
    LET text_length == TextLen(text)
        line_count == LineCount(text)
    IN  IF text_length > 300 \/ line_count > 6 THEN min_font_size
        ELSE IF text_length > 200 \/ line_count > 4 THEN min_font_size + 2
        ELSE IF text_length > 100 \/ line_count > 3 THEN max_font_size - 2
        ELSE max_font_size

\* the text boxes the calls write to
TextBoxes == {"A", "B"}

\* a text frame nothing was fitted to
EmptyFrame == [fitted |-> FALSE, text |-> Text(0, 0), size |-> 0]

FtInit ==
    /\ ftMax \in FontSizes
    /\ ftMin \in FontSizes
    /\ ftFrames = [box \in TextBoxes |-> EmptyFrame]

FtIdle ==
    /\ ftMax = DefaultMaxFontSize
    /\ ftMin = DefaultMinFontSize
    /\ ftFrames = [box \in TextBoxes |-> EmptyFrame]

\* fit_text_to_textbox(text_frame, text, max_font_size, min_font_size):
\* the frame takes the text (line 503) and every paragraph the size
\* (lines 519-521)
FitText ==
    \E box \in TextBoxes, text \in Texts :
        /\ ftFrames' = [ftFrames EXCEPT ![box] =
               [fitted |-> TRUE, text |-> text,
                size |-> fit_text_to_textbox(text, ftMax, ftMin)]]
        /\ UNCHANGED <<ftMax, ftMin>>
        /\ FtFrame

FtNext == FitText

(***************************************************************************)
(* Command line: main, src/main.py 112-177                                 *)
(***************************************************************************)
\* most positional words on a command line
MaxPositionals == 3

\* the words given as positionals: an empty word, the path of a file that
\* exists, a path of none, and a question
ArgWords == {"", "data.csv", "nofile.csv", "Which region sells most?"}

\* os.path.exists, line 153
PathExists(path) == path = "data.csv"

\* a command line: its positionals, in order, its flags, and the value of
\* -t, "" when the option is not given
CommandLines ==
    [ positionals : UNION {[1..n -> ArgWords] : n \in 0..MaxPositionals},
      help : BOOLEAN, list_templates : BOOLEAN, chat : BOOLEAN,
      template : {"", "default", "nosuch"} ]

\* args; None stands for the default of an argument that was not given
Args(csv_file, question, template, list_templates, chat) ==
    [csv_file |-> csv_file, question |-> question, output |-> "None",
     template |-> template, list_templates |-> list_templates, chat |-> chat]
NoArgs == Args("None", "None", "default", FALSE, FALSE)

\* parser.parse_args(), line 140, with the arguments of lines 127-138: the
\* exit it makes, or the namespace.  -h prints the help and exits; a third
\* positional or a -t value outside choices is an error
ParseOutcome(exit, args) == [exit |-> exit, args |-> args]
parse_args(argv, choices) ==
    IF argv.help THEN ParseOutcome("SystemExit(0)", NoArgs)
    ELSE IF argv.template /= "" /\ argv.template \notin choices
    THEN ParseOutcome("SystemExit(2)", NoArgs)
    ELSE IF Len(argv.positionals) > 2
    THEN ParseOutcome("SystemExit(2)", NoArgs)
    ELSE ParseOutcome("none",
             Args(IF Len(argv.positionals) >= 1 THEN argv.positionals[1] ELSE "None",
                  IF Len(argv.positionals) >= 2 THEN argv.positionals[2] ELSE "None",
                  IF argv.template = "" THEN "default" ELSE argv.template,
                  argv.list_templates, argv.chat))

\* not value, for a str or None
Falsy(value) == value \in {"None", ""}

\* the tests of lines 158 and 163 in the other order
Mode_QuestionBeforeChat(args) ==
    IF args.list_templates THEN "list_templates"
    ELSE IF Falsy(args.csv_file) THEN "csv_file is required"
    ELSE IF ~PathExists(args.csv_file) THEN "CSV file not found"
    ELSE IF Falsy(args.question) THEN "question is required"
    ELSE IF args.chat THEN "run_chatbot"
    ELSE "csv_to_ppt"

\* lines 142-170: the mode main runs
Mode(args) ==
    IF args.list_templates THEN "list_templates"
    ELSE IF Falsy(args.csv_file) THEN "csv_file is required"
    ELSE IF ~PathExists(args.csv_file) THEN "CSV file not found"
    ELSE IF args.chat THEN "run_chatbot"
    ELSE IF Falsy(args.question) THEN "question is required"
    ELSE "csv_to_ppt"

\* the calls of run_chatbot, lines 99-107, and of csv_to_ppt, lines 30-62,
\* in order
ChatbotCalls == <<"load_csv", "analyze_data", "chatbot_loop">>
PptCalls ==
    <<"get_available_templates", "load_csv", "analyze_data", "create_ppt_skeleton",
      "create_presentation">>

\* the calls that call ai(prompt)
LlmCalls == {"analyze_data", "chatbot_loop", "create_ppt_skeleton", "create_presentation"}

\* the files create_presentation may leave: chart images and the deck
DeckFiles == {"charts/chart_3.png", "charts/chart_4.png", "presentation.pptx"}

MnIdle ==
    /\ mnPc = "off"
    /\ mnArgv = [positionals |-> <<>>, help |-> FALSE, list_templates |-> FALSE,
                 chat |-> FALSE, template |-> ""]
    /\ mnArgs = NoArgs
    /\ mnModes = <<>>
    /\ mnLog = <<>>
    /\ mnFiles = {}

MnInit ==
    /\ mnPc = "parse_args"
    /\ mnArgv \in CommandLines
    /\ mnArgs = NoArgs
    /\ mnModes = <<>>
    /\ mnLog = <<>>
    /\ mnFiles = {}

\* get_available_templates(), lines 319-322 of ppt_generator.py, with a
\* templates folder that holds no file or default.pptx
TemplateChoices == {"default"}

\* main, lines 114-140: the parser is built, with the choices of -t read by
\* get_available_templates, and the command line is parsed
ParseArgs ==
    /\ mnPc = "parse_args"
    /\ LET out == parse_args(mnArgv, TemplateChoices)
       IN  /\ mnLog' = Append(mnLog, "get_available_templates")
           /\ IF out.exit /= "none"
              THEN mnPc' = "exited" /\ UNCHANGED mnArgs
              ELSE mnPc' = "dispatch" /\ mnArgs' = out.args
    /\ UNCHANGED <<mnArgv, mnModes, mnFiles>>
    /\ MnFrame

\* main, lines 142-170: the mode is chosen; templates are listed (lines
\* 66-87) and errors are printed at once
Dispatch ==
    /\ mnPc = "dispatch"
    /\ LET mode == Mode(mnArgs)
       IN  /\ mnModes' = Append(mnModes, mode)
           /\ mnPc' = IF mode \in {"run_chatbot", "csv_to_ppt"} THEN mode ELSE "returned"
           /\ mnLog' = IF mode = "list_templates"
                       THEN mnLog \o <<"list_templates", "get_available_templates">>
                       ELSE IF mode \in {"csv_file is required", "question is required"}
                       THEN Append(mnLog, "print_help")
                       ELSE mnLog
    /\ UNCHANGED <<mnArgv, mnArgs, mnFiles>>
    /\ MnFrame

\* run_chatbot, lines 91-109: the calls up to the one that raises, whose
\* Exception is caught (line 108), or all of them
RunChatbot ==
    /\ mnPc = "run_chatbot"
    /\ \E reached \in 1..Len(ChatbotCalls) :
           mnLog' = Append(mnLog, "run_chatbot") \o Take(ChatbotCalls, reached)
    /\ mnPc' = "returned"
    /\ UNCHANGED <<mnArgv, mnArgs, mnModes, mnFiles>>
    /\ MnFrame

\* csv_to_ppt, lines 11-65, called at line 170: the calls up to the one that
\* fails, or all of them; create_presentation leaves files
CsvToPpt ==
    /\ mnPc = "csv_to_ppt"
    /\ \E reached \in 2..Len(PptCalls) :
        /\ mnLog' = Append(mnLog, "csv_to_ppt") \o Take(PptCalls, reached)
        /\ IF reached = Len(PptCalls)
           THEN \E written \in SUBSET DeckFiles : mnFiles' = mnFiles \cup written
           ELSE UNCHANGED mnFiles
    /\ mnPc' = "returned"
    /\ UNCHANGED <<mnArgv, mnArgs, mnModes>>
    /\ MnFrame

MnNext ==
    \/ ParseArgs
    \/ Dispatch
    \/ RunChatbot
    \/ CsvToPpt

(***************************************************************************)
(* Specifications                                                          *)
(***************************************************************************)
SkeletonInit == SkInit /\ EnIdle /\ QeIdle /\ ChIdle /\ LyIdle /\ PlIdle /\ CbIdle /\ FtIdle /\ MnIdle
SpecSkeleton == SkeletonInit /\ [][SkNext]_vars

EnhanceInit == EnInit /\ SkIdle /\ QeIdle /\ ChIdle /\ LyIdle /\ PlIdle /\ CbIdle /\ FtIdle /\ MnIdle
SpecEnhance == EnhanceInit /\ [][EnNext]_vars

QueryInit == QeInit /\ SkIdle /\ EnIdle /\ ChIdle /\ LyIdle /\ PlIdle /\ CbIdle /\ FtIdle /\ MnIdle
SpecQuery == QueryInit /\ [][QeNext]_vars

ChartInit == ChInit /\ SkIdle /\ EnIdle /\ QeIdle /\ LyIdle /\ PlIdle /\ CbIdle /\ FtIdle /\ MnIdle
SpecChart == ChartInit /\ [][ChNext]_vars

LayoutInit == LyInit /\ SkIdle /\ EnIdle /\ QeIdle /\ ChIdle /\ PlIdle /\ CbIdle /\ FtIdle /\ MnIdle
SpecLayout == LayoutInit /\ [][LyNext]_vars

\* a direct call of create_presentation, lines 414-456, with a skeleton the
\* synthesizer can return, an analysis result, and the default template,
\* built in or from templates/default.pptx
DeckSkeletons ==
    {ObjectValue(tok) : tok \in ObjectTokens} \cup {FallbackSkeleton(PipelineQuestion)}
DeckResults ==
    { PipelineDataset, Eval(<<"df['Sales']">>, PipelineDataset).value }

DeckStart ==
    /\ plEntry = "create_presentation"
    /\ plPc = "create_presentation"
    /\ plFiles \in {{}, {Default}}
    /\ plCorrupt = FALSE
    /\ plLayouts \in TemplateLayouts
    /\ plFiles = {} => plLayouts = BuiltinLayouts
    /\ plRequested = Default
    /\ plTemplate = Default
    /\ plDf = PipelineDataset
    /\ \E result \in DeckResults :
           plAnalysis = Analysis(PipelineQuestion, <<"df">>, result,
                                 <<"West leads all regions.">>)
    /\ plSkeleton \in DeckSkeletons
    /\ plIdx = 0
    /\ plPrs = NoPrs
    /\ plCharts = <<>>
    /\ plLog = <<>>
    /\ plRaised = "none"
    /\ plReturn = "none"

DeckNext ==
    \/ LoadTemplate
    \/ EnhanceSlide
    \/ RenderChart
    \/ LayoutSlide
    \/ SavePresentation

DeckInit ==
    /\ DeckStart /\ SkIdle /\ EnIdle /\ QeIdle /\ LyIdle /\ CbIdle /\ FtIdle /\ MnIdle
    /\ ChOff /\ chPlotly \in BOOLEAN
SpecDeck == DeckInit /\ [][DeckNext]_vars

PipelineInit ==
    /\ PlInit /\ SkIdle /\ EnIdle /\ QeIdle /\ LyIdle /\ CbIdle /\ FtIdle /\ MnIdle
    /\ ChOff /\ chPlotly \in BOOLEAN
SpecPipeline == PipelineInit /\ [][PlNext]_vars

FitInit == FtInit /\ SkIdle /\ EnIdle /\ QeIdle /\ ChIdle /\ LyIdle /\ PlIdle /\ CbIdle /\ MnIdle
SpecFit == FitInit /\ [][FtNext]_vars

MainInit ==
    MnInit /\ SkIdle /\ EnIdle /\ QeIdle /\ ChIdle /\ LyIdle /\ PlIdle /\ CbIdle /\ FtIdle
SpecMain == MainInit /\ [][MnNext]_vars

ChatInit == CbInit /\ SkIdle /\ EnIdle /\ QeIdle /\ ChIdle /\ LyIdle /\ PlIdle /\ FtIdle /\ MnIdle
SpecChat == ChatInit /\ [][CbNext]_vars

\* a text with at least one character
TextNonEmpty(t) == \E i \in 1..Len(t) : t[i] /= ""

\* C1: for every LLM response text, the skeleton create_ppt_skeleton
\* returns has a 'slides' list of exactly 5 entries whose types are, in
\* order, title, content, chart, chart, content.
C1_SkeletonAlwaysFiveSlides ==
    skPc = "returned" =>
        /\ skResult.kind = "dict"
        /\ skResult.has_slides
        /\ Len(skResult.slides) = 5
        /\ \A i \in 1..5 : skResult.slides[i].type = TemplateTypes[i]

\* C10: when the isolated payload fails to parse, the result is the
\* hardcoded fallback: slide 1's title contains the first 35 characters of
\* the question, the slide numbers are 1..5 in order, and every slide has a
\* non-empty title and a non-empty content list.
C10_FallbackOnParseFailure ==
    (skPc = "returned" /\ ~JsonParses(SkeletonPayload(skLlm.text))) =>
        /\ skResult.kind = "dict" /\ skResult.has_slides
        /\ Len(skResult.slides) = 5
        /\ Contains(skResult.slides[1].title, Take(skQuestion, 35))
        /\ \A i \in 1..5 :
            /\ skResult.slides[i].slide_no = i
            /\ TextNonEmpty(skResult.slides[i].title)
            /\ Len(skResult.slides[i].content) > 0
            /\ \A k \in 1..Len(skResult.slides[i].content) :
                   TextNonEmpty(skResult.slides[i].content[k])

\* a question longer than 35 characters met an unparseable payload that
\* had a fence and braces to strip
C10_Witness ==
    /\ skPc = "returned"
    /\ skPath = "fallback"
    /\ Len(skQuestion) > 35
    /\ Contains(skLlm.text, <<"{">>)
    /\ ~JsonParses(SkeletonPayload(skLlm.text))

\* C4 as stated: for an outline of N >= 1 bullets and any LLM response, the
\* content after enhance_slide_content has between 1 and min(N, 4) bullets
\* when a usable line was produced, is the first min(N, 4) outline bullets
\* when none was, and is never empty.
C4_AtMostOutlineLength ==
    (enPc = "returned" /\ Len(enOutline) >= 1) =>
        /\ EnhancedPoints(enLlm.text) /= <<>> =>
               /\ Len(enSlide.content) >= 1
               /\ Len(enSlide.content) <= Min(Len(enOutline), 4)
        /\ EnhancedPoints(enLlm.text) = <<>> =>
               enSlide.content = Take(enOutline, Min(Len(enOutline), 4))
        /\ enSlide.content /= <<>>

\* C4 as amended: the upper bound is 4 bullets, whatever N is.
C4_AtMostFourBullets ==
    (enPc = "returned" /\ Len(enOutline) >= 1) =>
        /\ EnhancedPoints(enLlm.text) /= <<>> =>
               /\ Len(enSlide.content) >= 1
               /\ Len(enSlide.content) <= 4
        /\ EnhancedPoints(enLlm.text) = <<>> =>
               enSlide.content = Take(enOutline, Min(Len(enOutline), 4))
        /\ enSlide.content /= <<>>

\* a slide of more than 4 outline bullets whose response had lines but no
\* usable one kept its first 4 bullets
C4_Witness ==
    /\ enPc = "returned"
    /\ Len(enOutline) > 4
    /\ \E i \in 1..Len(Split(enLlm.text, "\n")) :
           CleanLine(Split(enLlm.text, "\n")[i]) /= <<>>
    /\ EnhancedPoints(enLlm.text) = <<>>
    /\ enSlide.content = Take(enOutline, 4)

\* the evaluation of the query of this call, on the dataset as it was
QeEvaluation == Eval(CleanQuery(qeQuery), qeDf0)

\* C3 as stated: for any query text whose evaluation raises,
\* execute_pandas_query does not raise and returns exactly the first
\* min(10, row count) rows of the original dataset, with the original
\* columns in the original order.
C3_FallbackOnAnyRaise ==
    (qePc \in {"returned", "raised"} /\ QeEvaluation.raises /= "none") =>
        /\ qePc = "returned"
        /\ qeResult.columns = qeDf0.columns
        /\ qeResult.rows = SubSeq(qeDf0.rows, 1, Min(10, Len(qeDf0.rows)))

\* C3 as amended: the same, for an evaluation that raises an exception
\* derived from Exception and has not modified df in place before raising.
C3_FallbackOnException ==
    (/\ qePc \in {"returned", "raised"}
     /\ QeEvaluation.raises \in {"SyntaxError", "KeyError"}
     /\ QeEvaluation.df = qeDf0) =>
        /\ qePc = "returned"
        /\ qeResult.columns = qeDf0.columns
        /\ qeResult.rows = SubSeq(qeDf0.rows, 1, Min(10, Len(qeDf0.rows)))

\* a missing column on a dataset of more than 10 rows came back as its
\* first 10 rows
C3_Witness ==
    /\ qePc = "returned"
    /\ QeEvaluation.raises = "KeyError"
    /\ QeEvaluation.df = qeDf0
    /\ Len(qeDf0.rows) > 10
    /\ Len(qeResult.rows) = 10

\* whether a question or a path names slide 3, or slide 4
NamesSlide3 ==
    \/ Contains(Lower(chQuestion), <<"s", "l", "i", "d", "e", " ", "3">>)
    \/ Contains(chPath, <<"c", "h", "a", "r", "t", "_", "3">>)
NamesSlide4 ==
    \/ Contains(Lower(chQuestion), <<"s", "l", "i", "d", "e", " ", "4">>)
    \/ Contains(chPath, <<"c", "h", "a", "r", "t", "_", "4">>)

\* C5: in generate_chart, whenever the question contains "slide 3" or the
\* path contains "chart_3" the chart type rendered is pie, and whenever the
\* question contains "slide 4" or the path contains "chart_4" it is bar,
\* whatever the classifier returned and whichever backend draws the chart.
\* (Where both rules apply the first is taken to win, as in the code.)
C5_OverrideInEveryBackend ==
    chPc = "returned" =>
        /\ NamesSlide3 => chRender.chart_type = "pie"
        /\ (NamesSlide4 /\ ~NamesSlide3) => chRender.chart_type = "bar"

\* the value column of the result table when it has a second column
HasNumericSecondColumn(df) == Len(df.columns) >= 2 /\ df.numeric[2]

\* the rows drawn, as rows of the result table (without an added Index)
C6_DrawnRows ==
    {SubSeq(chRender.rows[i], 1, Len(chTable.columns)) : i \in 1..Len(chRender.rows)}

RowSet(rows) == {rows[i] : i \in 1..Len(rows)}

\* C6 as stated: in both backends a pie chart is drawn from at most 8 rows:
\* the 8 largest of the result table by its second column when that is
\* numeric, otherwise the first 8 rows.
C6_PieFromTopEightOfTable ==
    (chPc = "returned" /\ chRender.drawn = "pie") =>
        /\ Len(chRender.rows) <= 8
        /\ IF HasNumericSecondColumn(chTable)
           THEN C6_DrawnRows = RowSet(NLargest(chTable.rows, 8, 2))
           ELSE C6_DrawnRows = RowSet(SubSeq(chTable.rows, 1, Min(8, Len(chTable.rows))))

\* the rows a backend picks among: the first 25 of the table (with the
\* Index column when the table has one column) for Plotly and for
\* Matplotlib as its fallback, all of them for Matplotlib alone
C6_Base ==
    IF chPlotly
    THEN [i \in 1..Min(25, Len(chTable.rows)) |->
            IF Len(chTable.columns) >= 2 THEN chTable.rows[i]
            ELSE Append(chTable.rows[i], i - 1)]
    ELSE chTable.rows

\* C6 as amended: a pie is drawn from at most 8 rows, picked among the
\* first 25 rows of the table (all rows when Matplotlib runs alone): for a
\* table of two or more columns the 8 largest by the second column when it
\* is numeric, otherwise the first 8; for a single-column table, in Plotly
\* the 8 largest by that column and in its fallback the 8 largest by the
\* added Index column.
C6_PieFromTopEightOfSample ==
    (chPc = "returned" /\ chRender.drawn = "pie") =>
        /\ Len(chRender.rows) <= 8
        /\ \A i \in 1..Len(chRender.rows) :
               \E j \in 1..Len(C6_Base) : chRender.rows[i] = C6_Base[j]
        /\ IF Len(chTable.columns) >= 2
           THEN IF chTable.numeric[2]
                THEN chRender.rows = NLargest(C6_Base, 8, 2)
                ELSE chRender.rows = SubSeq(C6_Base, 1, Min(8, Len(C6_Base)))
           ELSE IF chRender.backend = "plotly"
                THEN IF chTable.numeric[1]
                     THEN chRender.rows = NLargest(C6_Base, 8, 1)
                     ELSE chRender.rows = SubSeq(C6_Base, 1, Min(8, Len(C6_Base)))
                ELSE chRender.rows = NLargest(C6_Base, 8, 2)

\* a pie was drawn by the fallback backend from a table of more than 25
\* rows whose largest values are not in its first 8 rows
C6_Witness ==
    /\ chPc = "returned"
    /\ chRender.drawn = "pie"
    /\ chRender.backend = "matplotlib"
    /\ chPlotly
    /\ Len(chTable.rows) > 25
    /\ HasNumericSecondColumn(chTable)
    /\ Len(chRender.rows) = 8
    /\ chRender.rows /= SubSeq(chTable.rows, 1, 8)

\* the slide in EMU
SlideWidthEmu == 9144000
SlideHeightEmu == 6858000

\* C8: every element of the static layout configuration lies inside the
\* slide: left_percent + width_percent <= 100 and top_percent +
\* height_percent <= 100, so that the box placed from it is within the
\* 10 x 7.5 inch slide.
C8_ElementsInsideSlide ==
    \A i \in 1..Len(lySlides) : \A k \in 1..Len(lySlides[i]) :
        LET shape == lySlides[i][k]
            g     == lyConfig[shape.slide_type][shape.element]
        IN  /\ g.left_percent + g.width_percent <= 100
            /\ g.top_percent + g.height_percent <= 100
            /\ shape.left + shape.width <= SlideWidthEmu
            /\ shape.top + shape.height <= SlideHeightEmu

C2_LlmFailureCaught == plRaised \notin LlmSites

\* a Presentation has been handed out by load_pptx_template
TemplateLoaded == plPrs.builtin \/ plPrs.file /= <<>>

\* the requested name is not among the names scan_pptx_templates returned
TemplateUnknown == plRequested \notin ScannedNames(plFiles)

\* C7 as stated: a template name that is not among the scanned names, or
\* whose file cannot be loaded, always yields the built-in blank presentation
\* and never an error, from load_pptx_template and from csv_to_ppt, which
\* replaces the unknown name by "default" before any other stage runs.
C7_UnknownTemplateYieldsBuiltin ==
    /\ plRaised /= "load_pptx_template"
    /\ (TemplateLoaded /\ (TemplateUnknown \/ plCorrupt)) => plPrs.builtin
    /\ (plEntry = "csv_to_ppt" /\ plPc /= "start" /\ TemplateUnknown)
          => plTemplate = Default

\* C7, amended: load_pptx_template yields the built-in blank presentation,
\* and never an error, for a name whose lower-cased form matches no scanned
\* template file or whose file cannot be loaded; csv_to_ppt replaces a name
\* that is not exactly one of the scanned names by "default" before any other
\* stage runs, and then builds on the built-in blank presentation exactly
\* when the folder holds no loadable file named default.
C7_UnmatchedTemplateYieldsBuiltin ==
    /\ plRaised /= "load_pptx_template"
    /\ (plEntry = "load_pptx_template" /\ plPc = "done"
          /\ (~HasTemplateFile(plFiles, Lower(plRequested)) \/ plCorrupt))
          => plPrs.builtin
    /\ (plEntry = "csv_to_ppt" /\ plPc /= "start" /\ TemplateUnknown)
          => plTemplate = Default
    /\ (plEntry = "csv_to_ppt" /\ TemplateLoaded /\ TemplateUnknown)
          => (plPrs.builtin <=> (~HasTemplateFile(plFiles, Default) \/ plCorrupt))
    /\ (plEntry = "csv_to_ppt" /\ TemplateLoaded /\ ~TemplateUnknown /\ plCorrupt)
          => plPrs.builtin

\* csv_to_ppt was given an unknown name in a folder that has templates, and
\* saved a deck built on the built-in blank presentation
C7_Witness ==
    /\ plEntry = "csv_to_ppt"
    /\ plFiles /= {}
    /\ TemplateUnknown
    /\ plTemplate = Default
    /\ plPrs.builtin
    /\ plReturn = "output_filename"

\* what the Plotly renderer is given, lines 52-70: the chart type after the
\* override, the sample, and the category and value columns
PrimaryChartType == OverrideChartType(chCalls[1], chQuestion, chPath)
PrimaryFrame == Sample(WithIndexColumn(chTable))
PrimaryX == IF Len(chTable.columns) >= 2 THEN chTable.columns[1] ELSE "Index"
PrimaryY == IF Len(chTable.columns) >= 2 THEN chTable.columns[2] ELSE chTable.columns[1]

\* C11: when Plotly raises or is not available, the Matplotlib renderer
\* runs with the chart type decided for Plotly and with the data Plotly
\* would use: at most 25 rows of the result table and the same category and
\* value columns.
C11_FallbackSameDecisionAndData ==
    (chPc = "returned" /\ chRender.backend = "matplotlib") =>
        /\ chRender.chart_type = PrimaryChartType
        /\ chRender.frame = PrimaryFrame
        /\ Len(chRender.frame.rows) <= SampleRows
        /\ chRender.drawn = chRender.chart_type
        /\ chRender.x = PrimaryX
        /\ chRender.y = PrimaryY

\* C12: a call of create_chart_slide whose chart image does not exist adds
\* one slide carrying the title and every bullet, with a title box and a
\* text box and no picture; the call does not fail and no slide is dropped.
C12_MissingChartKeepsSlide ==
    /\ Len(lyDoc) = Len(lyArgs)
    /\ Len(lySlides) = Len(lyArgs)
    /\ \A i \in 1..Len(lyArgs) :
        (lyArgs[i].fn = "create_chart_slide" /\ ~lyArgs[i].chartExists) =>
            /\ lyDoc[i].title = lyArgs[i].title_text
            /\ Len(lyDoc[i].body) = Len(lyArgs[i].bullets)
            /\ \A k \in 1..Len(lyArgs[i].bullets) :
                   lyDoc[i].body[k] = <<"U+2022", " ">> \o lyArgs[i].bullets[k]
            /\ lyDoc[i].picture = <<>>
            /\ [k \in 1..Len(lySlides[i]) |-> lySlides[i][k].element] = <<"title", "text">>

\* a chart slide with bullets was laid out without its image, after a chart
\* slide that has its image
C12_Witness ==
    /\ Len(lyArgs) >= 2
    /\ lyArgs[1].fn = "create_chart_slide" /\ lyArgs[1].chartExists
    /\ lyDoc[1].picture /= <<>>
    /\ lyArgs[2].fn = "create_chart_slide" /\ ~lyArgs[2].chartExists
    /\ lyArgs[2].bullets /= <<>>
    /\ Len(lyDoc) = 2

\* the skeleton entries create_presentation has gone through
EntriesProcessed == IF plIdx = 0 THEN 0 ELSE plIdx - 1

\* C13 as stated: create_presentation adds exactly one slide per skeleton
\* entry, in skeleton order: after the first k entries the document holds k
\* new slides and the i-th new slide carries the title of the i-th entry.
C13_OneTitledSlidePerEntry ==
    TemplateLoaded =>
        /\ Len(plPrs.slides) = EntriesProcessed
        /\ \A i \in 1..Len(plPrs.slides) :
               plPrs.slides[i].title = plSkeleton.slides[i].title

\* whether the slide added for an entry of the given type gets a title: a
\* chart slide gets a title box of its own, the others use the title
\* placeholder of their layout
TitleCarried(type) == type = "chart" \/ plPrs.builtin \/ plLayouts.placeholders

\* C13, amended: create_presentation adds exactly one slide per skeleton
\* entry, in skeleton order, with the layout of the entry's type; the i-th
\* new slide carries the title of the i-th entry when it is a chart slide or
\* its layout has a title placeholder (as the layouts of the built-in
\* presentation have), and is left without a title otherwise.
C13_OneSlidePerEntry ==
    TemplateLoaded =>
        /\ Len(plPrs.slides) = EntriesProcessed
        /\ \A i \in 1..Len(plPrs.slides) :
             /\ plPrs.slides[i].layout = LayoutIndex(plSkeleton.slides[i].type)
             /\ plPrs.slides[i].title =
                    IF TitleCarried(plSkeleton.slides[i].type)
                    THEN plSkeleton.slides[i].title ELSE <<>>

\* a deck of five slides was saved on a template whose layouts have no
\* title placeholder: the chart slides carry their titles, the others none
C13_Witness ==
    /\ plEntry = "create_presentation"
    /\ plReturn = "output_filename"
    /\ ~plPrs.builtin
    /\ ~plLayouts.placeholders
    /\ Len(plPrs.slides) = 5
    /\ plPrs.slides[2].title = <<>>
    /\ plPrs.slides[3].title = plSkeleton.slides[3].title
    /\ plPrs.slides[4].title = plSkeleton.slides[4].title
    /\ plPrs.slides[3].title /= plPrs.slides[4].title

\* an input that the loop is said to end on: an exit command in any letter
\* case with white space around it, or Ctrl+C at the prompt
IsExitInput(ev) ==
    \/ ev.kind = "KeyboardInterrupt"
    \/ /\ ev.kind = "line"
       /\ Lower(Strip(ev.text)) \in { <<"/", "e", "x", "i", "t">>, <<"e", "x", "i", "t">>,
                                      <<"q", "u", "i", "t">> }

IsEndOfInput(ev) == ev.kind = "EOFError"

C15_FailedAnswerKeepsSession ==
    /\ [](/\ cbEnd /= "exception from chatbot"
          /\ \A i \in 1..Len(cbAnswers) :
                 cbAnswers[i].failed =>
                     /\ Len(cbAnswers[i].answer) > 0
                     /\ cbAnswers[i].answer[1] = "Error generating answer: ")
    /\ [][cbAnswers' /= cbAnswers => (cbPc' = "prompt" /\ cbEnd' = "none")]_vars

\* an answer failed, the next prompt was reached and its question answered
C15_Witness ==
    /\ Len(cbAnswers) = 2
    /\ cbAnswers[1].failed
    /\ ~cbAnswers[2].failed
    /\ cbPc = "prompt"

\* the place of a step among the steps of one slide
StepRank(step) ==
    CASE step = "enhance" -> 1 [] step = "chart" -> 2 [] step = "layout" -> 3
      [] step = "save" -> 4

\* whether the log holds the given step of the slide at position i
Logged(step, i) == \E a \in 1..Len(plLog) : plLog[a] = Step(step, i)

\* C16: in create_presentation the steps are sequential per slide in
\* skeleton order: a slide's enhancement precedes its chart rendering (chart
\* slides only), which precedes its layout, and all of these precede any
\* step of the next slide; the document is saved exactly once, after the
\* last slide's layout.
C16_StepsInSlideOrder ==
    /\ \A a \in 1..Len(plLog), b \in 1..Len(plLog) :
           a < b =>
               /\ plLog[a].step /= "save"
               /\ \/ plLog[b].step = "save"
                  \/ plLog[a].slide < plLog[b].slide
                  \/ /\ plLog[a].slide = plLog[b].slide
                     /\ StepRank(plLog[a].step) < StepRank(plLog[b].step)
    /\ \A a \in 1..Len(plLog) :
           LET i == plLog[a].slide
           IN  /\ plLog[a].step = "chart" =>
                      (Logged("enhance", i) /\ plSkeleton.slides[i].type = "chart")
               /\ plLog[a].step = "layout" =>
                      /\ Logged("enhance", i)
                      /\ plSkeleton.slides[i].type = "chart" => Logged("chart", i)
                      /\ \A j \in 1..(i - 1) : Logged("layout", j)
               /\ plLog[a].step = "save" =>
                      \A j \in 1..Len(plSkeleton.slides) : Logged("layout", j)
    /\ plReturn = "output_filename" =>
           (plLog /= <<>> /\ plLog[Len(plLog)].step = "save")

\* a deck of five slides, two of them chart slides, was saved
C16_Witness ==
    /\ plEntry = "create_presentation"
    /\ plReturn = "output_filename"
    /\ Len(plSkeleton.slides) = 5
    /\ Len(plLog) = 13
    /\ Logged("chart", 3) /\ Logged("chart", 4)
    /\ plLog[Len(plLog)].step = "save"

\* C17: create_presentation dispatches each slide on its type: a title
\* slide gets the title layout and no chart, a chart slide gets a chart
\* rendered and the chart layout with the image and the bullets, a content
\* slide gets the content layout and no chart, and a slide of any other type
\* is laid out as a content slide.
C17_DispatchOnType ==
    \A i \in 1..Len(plPrs.slides) :
        LET entry == plSkeleton.slides[i]
            slide == plPrs.slides[i]
        IN  CASE entry.type = "title" ->
                    /\ slide.layout = 0
                    /\ slide.picture = <<>>
                    /\ ~Logged("chart", i)
              [] entry.type = "chart" ->
                    /\ slide.layout = 5
                    /\ Logged("chart", i)
                    /\ slide.picture = ChartPath(<<DigitChars[entry.slide_no]>>)
                    /\ \E k \in 1..Len(plCharts) : plCharts[k].path = slide.picture
                    /\ Len(slide.body) = Len(entry.content)
                    /\ \A k \in 1..Len(entry.content) :
                           slide.body[k] = <<"U+2022", " ">> \o entry.content[k]
              [] OTHER ->
                    /\ slide.layout = 1
                    /\ slide.picture = <<>>
                    /\ ~Logged("chart", i)
                    /\ Logged("layout", i)

\* a deck was saved whose skeleton has a slide of type summary, between a
\* title slide and a chart slide
C17_Witness ==
    /\ plEntry = "create_presentation"
    /\ plReturn = "output_filename"
    /\ Len(plPrs.slides) = 5
    /\ plSkeleton.slides[1].type = "title"
    /\ plSkeleton.slides[2].type = "summary"
    /\ plSkeleton.slides[3].type = "chart"
    /\ plSkeleton.slides[5].type = "content"
    /\ plPrs.slides[2].layout = 1

\* C18: within one run of create_presentation no two chart slides write
\* the same image file, for any skeleton the synthesizer can return.
C18_NoImageWrittenTwice ==
    \A a \in 1..Len(plCharts), b \in 1..Len(plCharts) :
        a /= b => plCharts[a].path /= plCharts[b].path

\* a response line without its leading bullet glyphs, white space and
\* numbering (digits followed by a dot)
RECURSIVE StripBulletsAndNumbering(_)
StripBulletsAndNumbering(line) ==
    LET digits == {"0", "1", "2", "3", "4", "5", "6", "7", "8", "9"}
        k == FirstIdx(line, {line[j] : j \in 1..Len(line)} \ digits)
    IN  IF line = <<>> THEN <<>>
        ELSE IF Head(line) \in {"U+2022", "-", "*", " ", "\n"}
        THEN StripBulletsAndNumbering(Tail(line))
        ELSE IF Head(line) \in digits /\ k > 1 /\ line[k] = "."
        THEN StripBulletsAndNumbering(Drop(line, k))
        ELSE line

\* the response lines longer than 10 characters once bullets and numbering
\* are stripped, in response order, stripped
C19_UsableLines ==
    LET lines == Split(Strip(enLlm.text), "\n")
        F[k \in 0..Len(lines)] ==
            IF k = 0 THEN <<>>
            ELSE LET clean == Strip(StripBulletsAndNumbering(Strip(lines[k])))
                 IN  IF Len(clean) > 10 THEN Append(F[k - 1], clean) ELSE F[k - 1]
    IN  F[Len(lines)]

\* C19: when the response has usable lines, the slide's new content is
\* the first 4 (or fewer) response lines, in response order, that are longer
\* than 10 characters after leading bullet glyphs and numbering are stripped,
\* and no bullet of 10 or fewer characters is kept.
C19_FirstFourUsableLines ==
    (enPc = "returned" /\ C19_UsableLines /= <<>>) =>
        /\ enSlide.content = SubSeq(C19_UsableLines, 1, Min(4, Len(C19_UsableLines)))
        /\ \A k \in 1..Len(enSlide.content) : Len(enSlide.content[k]) > 10

\* text b is at least as long as text a and has at least as many lines
AtLeastAsLong(a, b) ==
    TextLen(b) >= TextLen(a) /\ LineCount(b) >= LineCount(a)

\* C20: for any max_font_size >= min_font_size, if text B is at least as
\* long and has at least as many lines as text A, the size chosen for B is
\* at most the size chosen for A, and every chosen size lies in
\* [min_font_size, max_font_size].
C20_SizeNeverRisesAndInRange ==
    ftMax >= ftMin =>
        /\ \A a, b \in TextBoxes :
               (ftFrames[a].fitted /\ ftFrames[b].fitted
                  /\ AtLeastAsLong(ftFrames[a].text, ftFrames[b].text))
               => ftFrames[b].size <= ftFrames[a].size
        /\ \A a \in TextBoxes :
               ftFrames[a].fitted =>
                   (ftMin <= ftFrames[a].size /\ ftFrames[a].size <= ftMax)

\* the same for a max_font_size at least 4 points above min_font_size
SizeNeverRisesFourPointsApart ==
    ftMax >= ftMin + 4 => C20_SizeNeverRisesAndInRange

\* C21: the steps of create_presentation (content enhancement, chart
\* generation, slide assembly, saving) leave the AnalysisResult as it was:
\* the original question, the query, the summary, and the rows and columns
\* of the result table, also when the table has a single column and the
\* chart needs an index column.
C21_AnalysisResultUnchanged ==
    [][plAnalysis' = plAnalysis]_vars

\* a deck saved after both charts were drawn by Plotly from a result of a
\* single column, with the index column on the x axis
C21_Witness ==
    /\ plEntry = "create_presentation"
    /\ plReturn = "output_filename"
    /\ Len(plAnalysis.result.columns) = 1
    /\ Len(plCharts) = 2
    /\ \A k \in 1..Len(plCharts) :
           /\ plCharts[k].backend = "plotly"
           /\ plCharts[k].x = "Index"
           /\ Len(plCharts[k].frame.columns) = 2

\* main has ended: it returned, or parse_args exited
MainEnded == mnPc \in {"returned", "exited"}

\* an LLM call was made
LlmCalled == \E k \in 1..Len(mnLog) : mnLog[k] \in LlmCalls

\* the csv argument of the command line is missing or names no file
CsvMissing ==
    \/ Len(mnArgv.positionals) = 0
    \/ ~PathExists(mnArgv.positionals[1])

\* the mode of a command line by the rules in their stated order, a question
\* being missing when no second positional is given
StatedMode ==
    IF mnArgv.list_templates THEN {"list_templates"}
    ELSE IF CsvMissing THEN {"csv_file is required", "CSV file not found"}
    ELSE IF mnArgv.chat THEN {"run_chatbot"}
    ELSE IF Len(mnArgv.positionals) < 2 THEN {"question is required"}
    ELSE {"csv_to_ppt"}

\* the same with an empty question counted as missing
StatedModeEmptyQuestionMissing ==
    IF mnArgv.list_templates THEN {"list_templates"}
    ELSE IF CsvMissing THEN {"csv_file is required", "CSV file not found"}
    ELSE IF mnArgv.chat THEN {"run_chatbot"}
    ELSE IF Len(mnArgv.positionals) < 2 \/ mnArgv.positionals[2] = ""
    THEN {"question is required"}
    ELSE {"csv_to_ppt"}

\* the list and error outcomes
QuietModes ==
    {"list_templates", "csv_file is required", "CSV file not found", "question is required"}

\* a command line parse_args accepts: no -h, at most two positionals, and a
\* -t value among the templates
Accepted ==
    /\ ~mnArgv.help
    /\ Len(mnArgv.positionals) <= 2
    /\ mnArgv.template \in {"", "default"}

\* C22 (as stated): every invocation of main runs exactly one mode, the one
\* of the first rule that matches (--list-templates; csv missing or not
\* found; --chat; question missing; else the deck), and makes no LLM call
\* and writes no file in the list and error outcomes.
C22_OneModeByFirstRule ==
    MainEnded =>
        /\ Len(mnModes) = 1
        /\ mnModes[1] \in StatedMode
        /\ mnModes[1] \in QuietModes => (~LlmCalled /\ mnFiles = {})

\* C22 (amended): a command line that parse_args accepts runs exactly one
\* mode, the one of the first rule that matches, an empty question counting
\* as missing; a command line it rejects, and -h, run no mode at all; no LLM
\* call and no file happen in the list, error and rejected outcomes.
C22_OneModeByFirstRuleWhenAccepted ==
    MainEnded =>
        /\ Accepted =>
               /\ mnPc = "returned"
               /\ Len(mnModes) = 1
               /\ mnModes[1] \in StatedModeEmptyQuestionMissing
               /\ mnModes[1] \in QuietModes => (~LlmCalled /\ mnFiles = {})
        /\ ~Accepted =>
               /\ mnPc = "exited"
               /\ mnModes = <<>>
               /\ ~LlmCalled /\ mnFiles = {}

\* the chatbot ran, with LLM calls, for a command line that gives --chat and
\* a question
C22_Witness ==
    /\ mnPc = "returned"
    /\ mnArgv.chat /\ ~mnArgv.list_templates
    /\ Len(mnArgv.positionals) = 2 /\ mnArgv.positionals[2] /= ""
    /\ mnModes = <<"run_chatbot">>
    /\ LlmCalled
====
